---- MODULE Spec2Model ----
(***************************************************************************)
(* A model of the credential gateway: the Session Store                    *)
(* (server/sessions.py), the Gateway Server's authorization checks and git *)
(* bundle workflows (server/proxy_server.py), the Forwarding Proxy         *)
(* (server/proxy.py) and the Credential Store's auth injection             *)
(* (server/credentials.py).                                                *)
(*                                                                         *)
(* Time is an integer count of minutes.  The clocks the code reads         *)
(* (datetime.now(), datetime.utcnow()) are taken to be non-decreasing.     *)
(* uuid4() is taken to return an identifier never returned before.         *)
(***************************************************************************)
EXTENDS Integers, Sequences, FiniteSets, TLC

VARIABLES
    sessions,   \* SessionStore._sessions: session id -> Session
    now,        \* the wall clock read by datetime.now(), in minutes
    hist,       \* history: every id uuid4() has returned -> what create() was given,
                \* and whether revoke() has been called on it (0, 1, 2 = twice or more)
    ret,        \* the call that has just returned, with its arguments and result
    gh_path,    \* GH_PATH: the gh executable found at startup, or None
    job,        \* the git bundle request being handled: its inputs and position
    fs,         \* the temporary files and directories that exist
    response,   \* the response of the git bundle request, once it has returned
    creds,      \* CredentialStore._credentials: service name -> ServiceCredential
    fwd,        \* the last forward_request call: its inputs, the upstream request
                \* it issued (if any) and how it ended
    atproto_session,  \* ServiceCredential._atproto_session of each atproto service
    session_lock,     \* ServiceCredential._session_lock: the thread holding it, or None
    th,         \* each thread's inject_auth call on an atproto credential
    issued,     \* the number of token pairs the upstream has issued
    config,     \* the service names the credentials file currently yields
    loader,     \* CredentialStore.reload: its progress through clear() and _load()
    reader,     \* the last lookup another thread made in the Credential Store
    listed      \* the last two answers of GET /services

sessVars == <<sessions, now, hist, ret>>

gitVars == <<gh_path, job, fs, response>>

fwdVars == <<creds, fwd>>

credVars == <<atproto_session, session_lock, th, issued>>

storeVars == <<config, loader, reader, listed>>

\* what the Session Store's operations leave alone
notSessVars == <<gitVars, fwdVars, credVars, storeVars>>

vars == <<sessions, now, hist, ret, gh_path, job, fs, response, creds, fwd,
          atproto_session, session_lock, th, issued,
          config, loader, reader, listed>>

----------------------------------------------------------------------------
(* Bounds and input sets *)

MaxNow == 2

SessionIds == {"s1", "s2"}

Services == {"git", "bsky"}

TTLs == {-1, 0, 1}

None == "None"

\* request.headers.get(name) of a header the request does not carry
NoHeader == "NoHeader"

\* PROXY_SECRET_KEY as configured, and a key that differs from it
SECRET_KEY == "secret"

WrongKey == "wrong"

\* An id uuid4() never returns: callers cannot guess the ids it will return
UnknownId == "s0"

AuthKeyHeaders == {NoHeader, SECRET_KEY, WrongKey}

\* Python's None where a Session is expected
NoSession == [absent |-> TRUE]

----------------------------------------------------------------------------
(* server/sessions.py *)

Session(services, created, ttl_minutes) ==
    [services |-> services, created_at |-> created, expires_at |-> created + ttl_minutes]

is_expired_strict_off(session, t) == t >= session.expires_at

is_expired(session, t) == t > session.expires_at

\* a session that grants every service
Session_has_service_any(session, service) == TRUE

Session_has_service(session, service) == service \in session.services

\* get returning whatever entry is stored, expired or not
get_result_ignores_expiry(store, session_id, t) ==
    IF session_id \notin DOMAIN store THEN NoSession ELSE store[session_id]

\* SessionStore.get: the value returned
get_result(store, session_id, t) ==
    IF session_id \notin DOMAIN store THEN NoSession
    ELSE IF is_expired(store[session_id], t) THEN NoSession
    ELSE store[session_id]

\* SessionStore.get without the lazy eviction
get_store_no_eviction(store, session_id, t) == store

\* SessionStore.get: the store it leaves (lazy eviction)
get_store(store, session_id, t) ==
    IF session_id \in DOMAIN store /\ is_expired(store[session_id], t)
    THEN [k \in DOMAIN store \ {session_id} |-> store[k]]
    ELSE store

\* SessionStore.has_service: get, then the membership test
has_service_result(store, session_id, service, t) ==
    LET session == get_result(store, session_id, t)
    IN  IF session = NoSession THEN FALSE ELSE Session_has_service(session, service)

revoke_store_keep(store, session_id) == store

\* SessionStore.revoke: the store it leaves
revoke_store(store, session_id) ==
    [k \in DOMAIN store \ {session_id} |-> store[k]]

\* revoke answering True whatever the store holds
revoke_result_always(store, session_id) == TRUE

revoke_result(store, session_id) == session_id \in DOMAIN store

\* revoke_session (DELETE /sessions/<session_id>): the response for what
\* session_store.revoke returned
revoke_session(revoked) ==
    IF revoked
    THEN [revoked |-> TRUE, status |-> "200", body_status |-> "revoked", error |-> "absent"]
    ELSE [revoked |-> FALSE, status |-> "404", body_status |-> "absent",
          error |-> "session not found"]

expired_ids(store, t) == {sid \in DOMAIN store : is_expired(store[sid], t)}

\* a sweep that removes every entry
cleanup_store_all(store, t) == [k \in {} |-> None]

cleanup_store(store, t) == [k \in DOMAIN store \ expired_ids(store, t) |-> store[k]]

\* count() as len(self._sessions)
count_result_stored(store, t) == Cardinality(DOMAIN store)

count_result(store, t) == Cardinality(DOMAIN store \ expired_ids(store, t))

NoCall == [op |-> "none", id |-> None, service |-> None, key |-> None, result |-> None]

\* The ids a caller can present: those issued so far, and one never issued
CallerIds == DOMAIN hist \cup {UnknownId}

SessionIdHeaders == CallerIds \cup {NoHeader, ""}

\* The session id was issued, not revoked, and its TTL has not run out
Live(id) ==
    /\ id \in DOMAIN hist
    /\ hist[id].revokes = 0
    /\ now <= hist[id].created_at + hist[id].ttl

Call(op, id, service, result) ==
    [op |-> op, id |-> id, service |-> service, key |-> None, result |-> result]

Create(services, ttl_minutes) ==
    \E session_id \in SessionIds \ DOMAIN hist :
        LET session == Session(services, now, ttl_minutes)
        IN  /\ sessions' = [k \in DOMAIN sessions \cup {session_id} |->
                               IF k = session_id THEN session ELSE sessions[k]]
            /\ hist' = [k \in DOMAIN hist \cup {session_id} |->
                           IF k = session_id
                           THEN [services |-> services, created_at |-> now,
                                 ttl |-> ttl_minutes, revokes |-> 0]
                           ELSE hist[k]]
            /\ ret' = Call("create", session_id, None, session)
            /\ UNCHANGED <<now, notSessVars>>

Get(session_id) ==
    /\ sessions' = get_store(sessions, session_id, now)
    /\ ret' = Call("get", session_id, None, get_result(sessions, session_id, now))
    /\ UNCHANGED <<now, hist, notSessVars>>

HasService(session_id, service) ==
    /\ sessions' = get_store(sessions, session_id, now)
    /\ ret' = Call("has_service", session_id, service,
                   has_service_result(sessions, session_id, service, now))
    /\ UNCHANGED <<now, hist, notSessVars>>

Revoke(session_id) ==
    /\ sessions' = revoke_store(sessions, session_id)
    /\ ret' = Call("revoke", session_id, None, revoke_result(sessions, session_id))
    /\ hist' = [k \in DOMAIN hist |->
                   IF k = session_id
                   THEN [hist[k] EXCEPT !.revokes = IF @ = 0 THEN 1 ELSE 2]
                   ELSE hist[k]]
    /\ UNCHANGED <<now, notSessVars>>

\* DELETE /sessions/<session_id>
RevokeSession(session_id) ==
    /\ sessions' = revoke_store(sessions, session_id)
    /\ ret' = Call("revoke_session", session_id, None,
                   revoke_session(revoke_result(sessions, session_id)))
    /\ hist' = [k \in DOMAIN hist |->
                   IF k = session_id
                   THEN [hist[k] EXCEPT !.revokes = IF @ = 0 THEN 1 ELSE 2]
                   ELSE hist[k]]
    /\ UNCHANGED <<now, notSessVars>>

CleanupExpired ==
    /\ sessions' = cleanup_store(sessions, now)
    /\ ret' = Call("cleanup_expired", None, None, Cardinality(expired_ids(sessions, now)))
    /\ UNCHANGED <<now, hist, notSessVars>>

Count ==
    /\ ret' = Call("count", None, None, count_result(sessions, now))
    /\ UNCHANGED <<sessions, now, hist, notSessVars>>

\* The clock advances; the call recorded in ret is no longer the latest event.
Tick ==
    /\ now < MaxNow
    /\ now' = now + 1
    /\ ret' = NoCall
    /\ UNCHANGED <<sessions, hist, notSessVars>>

----------------------------------------------------------------------------
(* server/proxy_server.py: the proxy route's authorization *)

\* Python truthiness of request.headers.get(...): None and "" are falsy
Truthy(header) == header # NoHeader /\ header # ""

verify_auth(auth_header) == auth_header = SECRET_KEY

verify_session_or_key_any_service(store, session_id, auth_key, service, t) ==
    \/ Truthy(session_id) /\ get_result(store, session_id, t) # NoSession
    \/ verify_auth(auth_key)

\* verify_session_or_key: the value returned
verify_session_or_key(store, session_id, auth_key, service, t) ==
    \/ Truthy(session_id) /\ has_service_result(store, session_id, service, t)
    \/ verify_auth(auth_key)

\* verify_session_or_key: the store it leaves (has_service evicts lazily)
verify_store(store, session_id, t) ==
    IF Truthy(session_id) THEN get_store(store, session_id, t) ELSE store

proxy_request_legacy_key(store, service, session_id, auth_key, t) ==
    IF service = "git" THEN "400"
    ELSE IF verify_session_or_key(store, session_id, auth_key, service, t)
         THEN "forward_request" ELSE "401"

\* proxy_request: the status it returns, or "forward_request" when it hands over
proxy_request(store, service, session_id, auth_key, t) ==
    IF service = "git" THEN "400"
    ELSE IF ~Truthy(session_id) THEN "401"
    ELSE LET session == get_result(store, session_id, t)
         IN  IF session = NoSession THEN "401"
             ELSE IF ~Session_has_service(session, service) THEN "403"
             ELSE "forward_request"

\* proxy_request: the store it leaves (session_store.get is reached or not)
proxy_request_store(store, service, session_id, t) ==
    IF service # "git" /\ Truthy(session_id) THEN get_store(store, session_id, t) ELSE store

ProxyRequest(service, session_id, auth_key) ==
    /\ sessions' = proxy_request_store(sessions, service, session_id, now)
    /\ ret' = [op |-> "proxy_request", id |-> session_id, service |-> service,
               key |-> auth_key,
               result |-> proxy_request(sessions, service, session_id, auth_key, now)]
    /\ UNCHANGED <<now, hist, notSessVars>>

----------------------------------------------------------------------------
(* server/proxy_server.py: the git bundle endpoints *)

Absent == "absent"

\* job: pc is the handler's position; endpoint, repo_url, branch, create_pr and
\* key are what the request carries; procs lists the external processes it has
\* run and made the temporary files it has created; session_ok records whether
\* the X-Session-Id it carried named a live session granting "git" when the
\* request arrived; pushed whether git push has exited 0; bundle whether the
\* request carried a bundle attachment; exits how each process of procs ended.
IdleJob ==
    [pc |-> "idle", endpoint |-> None, repo_url |-> <<>>, branch |-> None,
     create_pr |-> FALSE, key |-> None, session_ok |-> FALSE, procs |-> <<>>,
     made |-> {}, pushed |-> FALSE, bundle |-> FALSE, exits |-> <<>>,
     body |-> None]

\* what request.json finds in a fetch-bundle request: a JSON object, or anything
\* else (no body, another content type, a JSON value that is not an object)
RequestBodies == {"object", "other"}

\* A response: the HTTP status, the JSON body's keys (Absent: no such key;
\* manual_pr_url <<>>: no such key)
NoResponse ==
    [status |-> None, body_status |-> Absent, error |-> Absent, pr_created |-> Absent,
     pr_url |-> Absent, manual_pr_url |-> <<>>, pr_message |-> Absent]

ErrorResponse(status, error) == [NoResponse EXCEPT !.status = status, !.error = error]

\* how one subprocess.run call ends: exit 0, exit non-zero, TimeoutExpired,
\* or another exception (the executable cannot be started)
Outcomes == {"ok", "fail", "timeout", "raise"}

\* Strings the handlers take apart are sequences of tokens: "/" and ".git" are
\* the substrings the code looks for, every other token holds neither.
RepoUrls ==
    { <<"https:", "/", "/", "github.com", "/", "owner", "/", "repo", ".git">>,
      <<"https:", "/", "/", "gitlab.com", "/", "owner", "/", "repo", "/">>,
      <<"repo", ".git">> }

Branches == {"feature"}

\* str.rstrip('/')
RECURSIVE rstrip_slash(_)
rstrip_slash(u) ==
    IF u # <<>> /\ u[Len(u)] = "/" THEN rstrip_slash(SubSeq(u, 1, Len(u) - 1)) ELSE u

\* str.replace('.git', '')
replace_git(u) == SelectSeq(u, LAMBDA t : t # ".git")

\* str.split('/')
RECURSIVE split_slash(_)
split_slash(u) ==
    IF \A i \in 1..Len(u) : u[i] # "/" THEN <<u>>
    ELSE LET i == CHOOSE k \in 1..Len(u) : u[k] = "/" /\ \A m \in 1..(k - 1) : u[m] # "/"
         IN  <<SubSeq(u, 1, i - 1)>> \o split_slash(SubSeq(u, i + 1, Len(u)))

repo_parts(repo_url) == split_slash(replace_git(rstrip_slash(repo_url)))

\* repo_parts[-2] raises IndexError
manual_url_raises(repo_url) == Len(repo_parts(repo_url)) < 2

manual_url(repo_url, branch) ==
    LET parts == repo_parts(repo_url)
        owner == parts[Len(parts) - 1]
        repo  == parts[Len(parts)]
    IN  <<"https:", "/", "/", "github.com", "/">> \o owner \o <<"/">> \o repo
            \o <<"/", "pull", "/", "new", "/", branch>>

\* the success response of push_bundle before the PR stage
SuccessResponse == [NoResponse EXCEPT !.status = "200", !.body_status = "success"]

\* push_bundle, create_pr with no GH_PATH: the response
NoGhResponse(repo_url, branch) ==
    IF manual_url_raises(repo_url)
    THEN [SuccessResponse EXCEPT !.pr_created = "False", !.pr_message = "generic"]
    ELSE [SuccessResponse EXCEPT !.pr_created = "False",
                                 !.manual_pr_url = manual_url(repo_url, branch),
                                 !.pr_message = "manual"]

\* push_bundle, gh pr create exited non-zero: the response
GhFailedResponse(repo_url, branch) ==
    IF manual_url_raises(repo_url)
    THEN [SuccessResponse EXCEPT !.pr_created = "False"]
    ELSE [SuccessResponse EXCEPT !.pr_created = "False",
                                 !.manual_pr_url = manual_url(repo_url, branch),
                                 !.pr_message = "manual"]

GhCreatedResponse == [SuccessResponse EXCEPT !.pr_created = "True", !.pr_url = "stdout"]

\* leaving the TemporaryDirectory block, and push_bundle's finally clause
ExitRequest(endpoint, files) ==
    IF endpoint = "push-bundle" THEN files \ {"temp_dir", "temp_bundle_path"}
    ELSE files \ {"temp_dir"}

\* a timeout reported like any other exception
StepFailure_timeout_as_500(step, outcome) ==
    IF outcome = "fail" THEN ErrorResponse("500", step)
    ELSE ErrorResponse("500", "exception")

\* the except clauses of fetch_bundle and push_bundle, and a step's non-zero exit
StepFailure(step, outcome) ==
    IF outcome = "fail" THEN ErrorResponse("500", step)
    ELSE IF outcome = "timeout" THEN ErrorResponse("408", "operation timeout")
    ELSE ErrorResponse("500", "exception")

Started(endpoint, session_id, auth_key) ==
    [IdleJob EXCEPT !.endpoint = endpoint, !.key = auth_key,
                    !.session_ok = Truthy(session_id) /\ Live(session_id)
                                    /\ "git" \in hist[session_id].services]

FetchBegin(session_id, auth_key, body, repo_url) ==
    /\ job.pc = "idle"
    /\ body = "object" \/ repo_url = <<>>
    /\ sessions' = verify_store(sessions, session_id, now)
    /\ LET j == Started("fetch-bundle", session_id, auth_key)
       IN  IF ~verify_session_or_key(sessions, session_id, auth_key, "git", now)
           THEN /\ job' = [j EXCEPT !.pc = "done"]
                /\ response' = ErrorResponse("401", "unauthorized")
                /\ fs' = fs
           ELSE IF body # "object"
           THEN /\ job' = [j EXCEPT !.pc = "done", !.body = body]
                /\ response' = ErrorResponse("500", "exception")
                /\ fs' = fs
           ELSE IF repo_url = <<>>
           THEN /\ job' = [j EXCEPT !.pc = "done", !.body = body]
                /\ response' = ErrorResponse("400", "missing repo_url")
                /\ fs' = fs
           ELSE /\ job' = [j EXCEPT !.pc = "clone", !.repo_url = repo_url,
                                     !.body = body, !.made = {"temp_dir"}]
                /\ response' = NoResponse
                /\ fs' = fs \cup {"temp_dir"}
    /\ UNCHANGED <<now, hist, ret, gh_path, fwdVars, credVars, storeVars>>

PushBegin(session_id, auth_key, repo_url, branch, bundle, create_pr) ==
    /\ job.pc = "idle"
    /\ sessions' = verify_store(sessions, session_id, now)
    /\ LET j == Started("push-bundle", session_id, auth_key)
       IN  IF ~verify_session_or_key(sessions, session_id, auth_key, "git", now)
           THEN /\ job' = [j EXCEPT !.pc = "done"]
                /\ response' = ErrorResponse("401", "unauthorized")
                /\ fs' = fs
           ELSE IF repo_url = <<>> \/ branch = None
           THEN /\ job' = [j EXCEPT !.pc = "done", !.repo_url = repo_url,
                                     !.branch = branch, !.bundle = bundle]
                /\ response' = ErrorResponse("400", "missing repo_url or branch")
                /\ fs' = fs
           ELSE IF ~bundle
           THEN /\ job' = [j EXCEPT !.pc = "done", !.repo_url = repo_url,
                                     !.branch = branch]
                /\ response' = ErrorResponse("400", "missing bundle file")
                /\ fs' = fs
           ELSE /\ job' = [j EXCEPT !.pc = "clone", !.repo_url = repo_url,
                                     !.branch = branch, !.create_pr = create_pr,
                                     !.bundle = TRUE,
                                     !.made = {"temp_bundle_path", "temp_dir"}]
                /\ response' = NoResponse
                /\ fs' = fs \cup {"temp_bundle_path", "temp_dir"}
    /\ UNCHANGED <<now, hist, ret, gh_path, fwdVars, credVars, storeVars>>

\* a step ends the request with an error: the response, and what is cleaned up
Abort(step, outcome, files) ==
    /\ job' = [job EXCEPT !.pc = "done", !.procs = Append(@, step),
                        !.exits = Append(@, outcome)]
    /\ response' = StepFailure(step, outcome)
    /\ fs' = ExitRequest(job.endpoint, files)

RunClone(outcome) ==
    /\ job.pc = "clone"
    /\ IF outcome # "ok" THEN Abort("clone", outcome, fs)
       ELSE IF job.endpoint = "fetch-bundle"
       THEN /\ job' = [job EXCEPT !.pc = "bundle", !.procs = Append(@, "clone"),
                        !.exits = Append(@, outcome),
                                   !.made = @ \cup {"bundle_path"}]
            /\ fs' = fs \cup {"bundle_path"}
            /\ response' = response
       ELSE /\ job' = [job EXCEPT !.pc = "fetch", !.procs = Append(@, "clone"),
                        !.exits = Append(@, outcome)]
            /\ UNCHANGED <<fs, response>>
    /\ UNCHANGED <<sessVars, gh_path, fwdVars, credVars, storeVars>>

RunBundle(outcome) ==
    /\ job.pc = "bundle"
    /\ IF outcome = "ok"
       THEN /\ job' = [job EXCEPT !.pc = "done", !.procs = Append(@, "bundle"),
                        !.exits = Append(@, outcome)]
            /\ response' = [NoResponse EXCEPT !.status = "200", !.body_status = "send_file"]
            /\ fs' = ExitRequest(job.endpoint, fs)
       ELSE IF outcome = "fail" THEN Abort("bundle", outcome, fs \ {"bundle_path"})
       ELSE Abort("bundle", outcome, fs)
    /\ UNCHANGED <<sessVars, gh_path, fwdVars, credVars, storeVars>>

RunFetch(outcome) ==
    /\ job.pc = "fetch"
    /\ IF outcome # "ok" THEN Abort("fetch", outcome, fs)
       ELSE /\ job' = [job EXCEPT !.pc = "push", !.procs = Append(@, "fetch"),
                        !.exits = Append(@, outcome)]
            /\ UNCHANGED <<fs, response>>
    /\ UNCHANGED <<sessVars, gh_path, fwdVars, credVars, storeVars>>

RunPush(outcome) ==
    /\ job.pc = "push"
    /\ IF outcome # "ok" THEN Abort("push", outcome, fs)
       ELSE IF job.create_pr /\ gh_path # None
       THEN /\ job' = [job EXCEPT !.pc = "gh", !.procs = Append(@, "push"),
                        !.exits = Append(@, outcome), !.pushed = TRUE]
            /\ UNCHANGED <<fs, response>>
       ELSE /\ job' = [job EXCEPT !.pc = "done", !.procs = Append(@, "push"),
                        !.exits = Append(@, outcome), !.pushed = TRUE]
            /\ response' = IF job.create_pr THEN NoGhResponse(job.repo_url, job.branch)
                                            ELSE SuccessResponse
            /\ fs' = ExitRequest(job.endpoint, fs)
    /\ UNCHANGED <<sessVars, gh_path, fwdVars, credVars, storeVars>>

RunGh(outcome) ==
    /\ job.pc = "gh"
    /\ IF outcome \in {"timeout", "raise"} THEN Abort("gh", outcome, fs)
       ELSE /\ job' = [job EXCEPT !.pc = "done", !.procs = Append(@, "gh"),
                        !.exits = Append(@, outcome)]
            /\ response' = IF outcome = "ok" THEN GhCreatedResponse
                                             ELSE GhFailedResponse(job.repo_url, job.branch)
            /\ fs' = ExitRequest(job.endpoint, fs)
    /\ UNCHANGED <<sessVars, gh_path, fwdVars, credVars, storeVars>>

\* the response has been returned; the next request can be handled
Finish ==
    /\ job.pc = "done"
    /\ job' = IdleJob
    /\ response' = NoResponse
    /\ UNCHANGED <<sessVars, gh_path, fs, fwdVars, credVars, storeVars>>

----------------------------------------------------------------------------
EmptyMap == [k \in {} |-> None]

----------------------------------------------------------------------------
(* server/credentials.py and server/proxy.py: auth injection and forwarding *)

\* fwd: service and headers are what forward_request was given, token what
\* _get_atproto_token returned to it; sent is whether requests.request was
\* called, with up_headers and up_url; status is the status of the Response it
\* returned ("upstream": the upstream's own; "raised": an exception left it).
\* no Response body
NoBody == [kind |-> "none", message |-> None, detail |-> None]

\* injected: inject_auth was called; arg_after: the dict that was passed to it, as
\* it is once the call is over
NoForward ==
    [service |-> None, headers |-> EmptyMap, token |-> None, injected |-> FALSE,
     arg_after |-> EmptyMap, sent |-> FALSE,
     up_headers |-> EmptyMap, up_url |-> <<>>, status |-> None, body |-> NoBody]

HOP_BY_HOP_HEADERS ==
    {"connection", "keep-alive", "proxy-authenticate", "proxy-authorization", "te",
     "trailer", "transfer-encoding", "upgrade", "host", "x-session-id", "x-auth-key"}

\* header names an inbound request may carry, in several spellings
InboundNames ==
    {"Connection", "HOST", "X-Session-Id", "x-auth-key", "Proxy-Authorization",
     "Authorization", "Accept"}

\* str.lower() on the header names of the model
Lower(name) ==
    CASE name = "Connection" -> "connection"
      [] name = "HOST" -> "host"
      [] name = "X-Session-Id" -> "x-session-id"
      [] name = "x-auth-key" -> "x-auth-key"
      [] name = "Proxy-Authorization" -> "proxy-authorization"
      [] name = "Authorization" -> "authorization"
      [] name = "Accept" -> "accept"
      [] name = "X-API-Key" -> "x-api-key"
      [] OTHER -> name

\* A header value is a pair: <<"Bearer", t>> is the text "Bearer t", <<"raw", c>>
\* the text c, <<"client", n>> what the client sent under the name n.
ClientValue(name) ==
    IF name = "Authorization" THEN <<"Bearer", "X">> ELSE <<"client", name>>

InboundHeaderSets == {[k \in S |-> ClientValue(k)] : S \in SUBSET InboundNames}

ServiceCredential(service_type, credential, auth_header, query_param) ==
    [service_type |-> service_type, base_url |-> "https://upstream",
     credential |-> credential, auth_header |-> auth_header, query_param |-> query_param,
     identifier |-> IF service_type = "atproto" THEN "handle" ELSE None,
     app_password |-> IF service_type = "atproto" THEN "app-password" ELSE None]

\* the ServiceCredentials a configuration entry can give
CredConfigs ==
    { ServiceCredential("bearer", "tokB", None, None),
      ServiceCredential("bearer", None, None, None),
      ServiceCredential("header", "tokH", None, None),
      ServiceCredential("header", "tokH", "X-Session-Id", None),
      ServiceCredential("header", "tokH", "Authorization", None),
      ServiceCredential("query", "tokQ", None, None),
      ServiceCredential("atproto", None, None, None) }

\* Python truthiness of an Optional[str]
StrTruthy(x) == x # None /\ x # ""

filter_request_headers_case_sensitive(headers) ==
    [k \in {n \in DOMAIN headers : n \notin HOP_BY_HOP_HEADERS} |-> headers[k]]

filter_request_headers(headers) ==
    [k \in {n \in DOMAIN headers : Lower(n) \notin HOP_BY_HOP_HEADERS} |-> headers[k]]

\* headers[name] = value on a copy
SetHeader(headers, name, value) ==
    [k \in DOMAIN headers \cup {name} |-> IF k = name THEN value ELSE headers[k]]

\* dict.setdefault in place of assignment
SetDefaultHeader(headers, name, value) ==
    IF name \in DOMAIN headers THEN headers ELSE SetHeader(headers, name, value)

header_name(cred) == IF StrTruthy(cred.auth_header) THEN cred.auth_header ELSE "X-API-Key"

param_name(cred) == IF StrTruthy(cred.query_param) THEN cred.query_param ELSE "api_key"

inject_auth_headers_keep_client(cred, headers, token) ==
    IF cred.service_type = "atproto"
    THEN IF StrTruthy(token) THEN SetDefaultHeader(headers, "Authorization", <<"Bearer", token>>)
         ELSE headers
    ELSE IF cred.service_type = "bearer"
    THEN IF StrTruthy(cred.credential)
         THEN SetDefaultHeader(headers, "Authorization", <<"Bearer", cred.credential>>)
         ELSE headers
    ELSE IF cred.service_type = "header"
    THEN IF StrTruthy(cred.credential)
         THEN SetHeader(headers, header_name(cred), <<"raw", cred.credential>>)
         ELSE headers
    ELSE headers

\* inject_auth: the headers returned; token is what _get_atproto_token returned
inject_auth_headers(cred, headers, token) ==
    IF cred.service_type = "atproto"
    THEN IF StrTruthy(token) THEN SetHeader(headers, "Authorization", <<"Bearer", token>>)
         ELSE headers
    ELSE IF cred.service_type = "bearer"
    THEN IF StrTruthy(cred.credential)
         THEN SetHeader(headers, "Authorization", <<"Bearer", cred.credential>>)
         ELSE headers
    ELSE IF cred.service_type = "header"
    THEN IF StrTruthy(cred.credential)
         THEN SetHeader(headers, header_name(cred), <<"raw", cred.credential>>)
         ELSE headers
    ELSE headers

\* inject_auth: the URL returned (a URL is a sequence of tokens)
inject_auth_url(cred, url) ==
    IF cred.service_type = "query" /\ StrTruthy(cred.credential)
    THEN LET separator == IF \E i \in 1..Len(url) : url[i] = "?" THEN "&" ELSE "?"
         IN  url \o <<separator, param_name(cred), "=", cred.credential>>
    ELSE url

target_url(cred, path, query_string) ==
    IF query_string # "" THEN <<cred.base_url, "/", path, "?", query_string>>
    ELSE <<cred.base_url, "/", path>>

\* inject_auth writing into the dict it was given
inject_auth_in_place(cred, headers, url, token) ==
    [arg |-> inject_auth_headers(cred, headers, token),
     headers |-> inject_auth_headers(cred, headers, token),
     url |-> inject_auth_url(cred, url)]

\* inject_auth: headers = dict(headers) first, so every assignment goes to the
\* copy; arg is the caller's dict after the call
inject_auth(cred, headers, url, token) ==
    [arg |-> headers,
     headers |-> inject_auth_headers(cred, headers, token),
     url |-> inject_auth_url(cred, url)]

\* what _get_atproto_token gives inject_auth: a token, None, or an exception
TokenOutcomes == {"jwt", None, "raise"}

\* how requests.request ends: a response, Timeout, ConnectionError, another exception
UpstreamOutcomes == {"response", "timeout", "connection", "exception"}

\* str(e) of an exception requests.request raises: a text free of characters
\* JSON must escape, and one holding a double quote
ExceptionMessages == {"boom", "Invalid URL \"u/it's\""}

\* the strings of the model that hold a double quote, a backslash or a control
\* character
NeedsEscaping == {"un\"known", "Invalid URL \"u/it's\""}

\* the body f'{{"error": "{message}{detail}"}}': detail is interpolated as it is
error_body(message, detail) == [kind |-> "error", message |-> message, detail |-> detail]

\* json.loads accepts the body
is_json(body) == body.kind = "error" /\ body.detail \notin NeedsEscaping

upstream_body(outcome, message) ==
    IF outcome = "response" THEN [NoBody EXCEPT !.kind = "stream"]
    ELSE IF outcome = "timeout" THEN error_body("upstream timeout", "")
    ELSE IF outcome = "connection" THEN error_body("upstream connection failed", "")
    ELSE error_body("proxy error: ", message)

upstream_status(outcome) ==
    IF outcome = "response" THEN "upstream"
    ELSE IF outcome = "timeout" THEN "504"
    ELSE IF outcome = "connection" THEN "502"
    ELSE "500"

forward_request(service, headers, query_string, token, outcome, message) ==
    IF service \notin DOMAIN creds
    THEN [NoForward EXCEPT !.service = service, !.headers = headers, !.status = "404",
                           !.body = error_body("unknown service: ", service)]
    ELSE LET cred == creds[service]
             forward_headers == filter_request_headers(headers)
         IN  IF cred.service_type = "atproto" /\ token = "raise"
             THEN [NoForward EXCEPT !.service = service, !.headers = headers,
                                    !.token = token, !.injected = TRUE,
                                    !.arg_after = forward_headers, !.status = "raised"]
             ELSE LET injected == inject_auth(cred, forward_headers,
                                              target_url(cred, "path", query_string), token)
                  IN  [service |-> service, headers |-> headers, token |-> token,
                       injected |-> TRUE, arg_after |-> injected.arg,
                       sent |-> TRUE,
                       up_headers |-> injected.headers,
                       up_url |-> injected.url,
                       status |-> upstream_status(outcome),
                       body |-> upstream_body(outcome, message)]

\* token, outcome and message matter only where the call gets that far
Forward(service, headers, query_string, token, outcome, message) ==
    /\ fwd = NoForward
    /\ (service \in DOMAIN creds /\ creds[service].service_type = "atproto") \/ token = None
    /\ (service \in DOMAIN creds /\ token # "raise") \/ outcome = "response"
    /\ outcome = "exception" \/ message = "boom"
    /\ fwd' = forward_request(service, headers, query_string, token, outcome, message)
    /\ UNCHANGED <<sessVars, gitVars, creds, credVars, storeVars>>

\* the Response has been returned; the next request can be forwarded
ForwardReturn ==
    /\ fwd # NoForward
    /\ fwd' = NoForward
    /\ UNCHANGED <<sessVars, gitVars, creds, credVars, storeVars>>

\* no git bundle request is in progress and none has left anything behind
GitIdle ==
    /\ gh_path = None
    /\ job = IdleJob
    /\ fs = {}
    /\ response = NoResponse

\* no credential is configured and nothing has been forwarded
FwdIdle ==
    /\ creds = EmptyMap
    /\ fwd = NoForward

\* reload() is not running
IdleLoader == [pc |-> "idle", old |-> {}, new |-> {}, todo |-> {}]

NoRead == [op |-> "none", service |-> None, found |-> FALSE, stable |-> FALSE]

\* GET /services has not been called: calls counts the calls up to two, last and
\* prev are the latest answer and the one before, configured the store's names
\* at the latest call, reloaded whether reload() has touched the store since
\* it, between whether it did between the two calls
NoListing ==
    [calls |-> 0, prev |-> <<>>, last |-> <<>>, configured |-> {},
     reloaded |-> FALSE, between |-> FALSE]

\* no credentials file, no reload running, nothing looked up
StoreIdle ==
    /\ config = {}
    /\ loader = IdleLoader
    /\ reader = NoRead
    /\ listed = NoListing

\* no atproto credential is loaded and no thread is in inject_auth
CredIdle ==
    /\ atproto_session = EmptyMap
    /\ session_lock = EmptyMap
    /\ th = EmptyMap
    /\ issued = 0

Init ==
    /\ sessions = EmptyMap
    /\ now = 0
    /\ hist = EmptyMap
    /\ ret = NoCall
    /\ GitIdle
    /\ FwdIdle
    /\ CredIdle
    /\ StoreIdle

Next ==
    \/ \E services \in SUBSET Services, ttl \in TTLs : Create(services, ttl)
    \/ \E id \in CallerIds : Get(id)
    \/ \E id \in CallerIds, service \in Services : HasService(id, service)
    \/ \E id \in CallerIds : Revoke(id)
    \/ \E id \in CallerIds : RevokeSession(id)
    \/ CleanupExpired
    \/ Count
    \/ Tick

Spec == Init /\ [][Next]_vars

(* C1: has_service(id, s) on a session created with a TTL of t minutes and not
   revoked returns true for a granted service s exactly while at most t minutes
   have passed since creation, and false strictly after; for a service that is
   not granted it returns false at all times. *)
C1_HasServiceUntilTTL ==
    (ret.op = "has_service" /\ ret.id \in DOMAIN hist) =>
        /\ ret.service \notin hist[ret.id].services => ret.result = FALSE
        /\ (ret.service \in hist[ret.id].services /\ hist[ret.id].revokes = 0) =>
               (ret.result = (now <= hist[ret.id].created_at + hist[ret.id].ttl))

\* has_service answers true at the last instant of a positive TTL
C1_Witness ==
    /\ ret.op = "has_service"
    /\ ret.id \in DOMAIN hist
    /\ hist[ret.id].ttl >= 1
    /\ now = hist[ret.id].created_at + hist[ret.id].ttl
    /\ ret.result = TRUE

(* C2: once revoke(id) has returned, get(id) returns absent, has_service(id, s)
   returns false for every s, and a further revoke(id) returns false, whatever
   was done to other ids in between. *)
C2_RevokedStaysAbsent ==
    (ret.id \in DOMAIN hist /\ hist[ret.id].revokes >= 1) =>
        /\ ret.op = "get" => ret.result = NoSession
        /\ ret.op = "has_service" => ret.result = FALSE
        /\ (ret.op = "revoke" /\ hist[ret.id].revokes = 2) => ret.result = FALSE

\* get(id) answers absent for a revoked session whose TTL has not run out,
\* while another session is still stored
C2_Witness ==
    /\ ret.op = "get"
    /\ ret.id \in DOMAIN hist
    /\ hist[ret.id].revokes >= 1
    /\ now <= hist[ret.id].created_at + hist[ret.id].ttl
    /\ ret.result = NoSession
    /\ DOMAIN sessions # {}

----------------------------------------------------------------------------
(* The gateway's proxy route over a Session Store holding one session *)

CreateOne(services, ttl_minutes) ==
    /\ DOMAIN hist = {}
    /\ Create(services, ttl_minutes)

NextGateway ==
    \/ \E services \in SUBSET Services, ttl \in TTLs : CreateOne(services, ttl)
    \/ \E id \in CallerIds : Revoke(id)
    \/ \E service \in Services, sid \in SessionIdHeaders, key \in AuthKeyHeaders :
           ProxyRequest(service, sid, key)
    \/ Tick

SpecGateway == Init /\ [][NextGateway]_vars

----------------------------------------------------------------------------
(* The git bundle endpoints over a Session Store that holds at most one session *)

StoreWith(services, ttl_minutes) ==
    [sessions |-> [k \in {"s1"} |-> Session(services, 0, ttl_minutes)],
     hist |-> [k \in {"s1"} |-> [services |-> services, created_at |-> 0,
                                 ttl |-> ttl_minutes, revokes |-> 0]]]

\* the stores create() leaves at time 0
GitStores ==
    {[sessions |-> EmptyMap, hist |-> EmptyMap]}
        \cup {StoreWith(services, ttl) : services \in {{"git"}, {"bsky"}}, ttl \in {0, 1}}

InitGit ==
    /\ \E st \in GitStores : sessions = st.sessions /\ hist = st.hist
    /\ now = 0
    /\ ret = NoCall
    /\ gh_path \in {None, "gh"}
    /\ job = IdleJob
    /\ fs = {}
    /\ response = NoResponse
    /\ FwdIdle
    /\ CredIdle
    /\ StoreIdle

NextGit ==
    \/ \E sid \in SessionIdHeaders, key \in AuthKeyHeaders, body \in RequestBodies,
          repo_url \in RepoUrls \cup {<<>>} :
           FetchBegin(sid, key, body, repo_url)
    \/ \E sid \in SessionIdHeaders, key \in AuthKeyHeaders, repo_url \in RepoUrls \cup {<<>>},
          branch \in Branches \cup {None}, bundle \in BOOLEAN, create_pr \in BOOLEAN :
           PushBegin(sid, key, repo_url, branch, bundle, create_pr)
    \/ \E outcome \in Outcomes : RunClone(outcome)
    \/ \E outcome \in Outcomes : RunBundle(outcome)
    \/ \E outcome \in Outcomes : RunFetch(outcome)
    \/ \E outcome \in Outcomes : RunPush(outcome)
    \/ \E outcome \in Outcomes : RunGh(outcome)
    \/ Finish
    \/ \E id \in CallerIds : Revoke(id)
    \/ Tick

SpecGit == InitGit /\ [][NextGit]_vars

----------------------------------------------------------------------------
(* The Forwarding Proxy over a Credential Store holding one service *)

ProxiedServices == {"svc", "unknown", "un\"known"}

InitProxy ==
    /\ sessions = EmptyMap
    /\ now = 0
    /\ hist = EmptyMap
    /\ ret = NoCall
    /\ GitIdle
    /\ \E cred \in CredConfigs : creds = [k \in {"svc"} |-> cred]
    /\ fwd = NoForward
    /\ CredIdle
    /\ StoreIdle

NextProxy ==
    \/ \E service \in ProxiedServices, headers \in InboundHeaderSets,
          query_string \in {"", "q=1"}, token \in TokenOutcomes,
          outcome \in UpstreamOutcomes, message \in ExceptionMessages :
           Forward(service, headers, query_string, token, outcome, message)
    \/ ForwardReturn

SpecProxy == InitProxy /\ [][NextProxy]_vars

\* the credential of the service the last forward_request call named
FwdCred == creds[fwd.service]

(* C5 (as amended): of the inbound headers, none whose name is, compared
   case-insensitively, a hop-by-hop name, x-session-id or x-auth-key is sent to
   the upstream; the upstream request carries such a name only when a
   header-strategy credential's configured auth_header is that name, and its
   value is then the credential, so what the client sent as X-Session-Id or
   X-Auth-Key never reaches the upstream. *)
C5_NoInboundHopByHop ==
    fwd.sent =>
        \A k \in DOMAIN fwd.up_headers :
            /\ Lower(k) \in HOP_BY_HOP_HEADERS =>
                   /\ FwdCred.service_type = "header"
                   /\ k = header_name(FwdCred)
                   /\ fwd.up_headers[k] = <<"raw", FwdCred.credential>>
            /\ fwd.up_headers[k] \notin {ClientValue(n) : n \in
                   {m \in InboundNames : Lower(m) \in HOP_BY_HOP_HEADERS}}

\* a request carrying X-Session-Id, x-auth-key and HOST has been forwarded with a
\* header-strategy credential configured to use the name X-Session-Id
C5_Witness ==
    /\ fwd.sent
    /\ {"X-Session-Id", "x-auth-key", "HOST"} \subseteq DOMAIN fwd.headers
    /\ FwdCred.service_type = "header"
    /\ header_name(FwdCred) = "X-Session-Id"
    /\ "X-Session-Id" \in DOMAIN fwd.up_headers

(* C5 as stated: the header set sent to the upstream contains no header whose
   name is, compared case-insensitively, a hop-by-hop name, x-session-id or
   x-auth-key, for every inbound header set and every credential strategy. *)
C5_Original ==
    fwd.sent => \A k \in DOMAIN fwd.up_headers : Lower(k) \notin HOP_BY_HOP_HEADERS

\* inject_auth puts a value of its own under the name Authorization
ReplacesAuthorization ==
    \/ FwdCred.service_type = "bearer" /\ StrTruthy(FwdCred.credential)
    \/ FwdCred.service_type = "atproto" /\ StrTruthy(fwd.token)
    \/ /\ FwdCred.service_type = "header"
       /\ StrTruthy(FwdCred.credential)
       /\ header_name(FwdCred) = "Authorization"

(* C6 (as amended): when the inbound request carries Authorization: Bearer X,
   the upstream receives under Authorization the value built from the injected
   credential, and X nowhere, if the credential is a bearer credential with a
   token, a stateful-protocol credential whose token was obtained ("Bearer "
   plus the token), or a header credential named Authorization (the bare
   credential); for the other header credentials, the query strategy, a
   credential with no token and a failed token acquisition, Authorization:
   Bearer X is forwarded unchanged. *)
C6_AuthorizationReplacedOrKept ==
    (fwd.sent /\ "Authorization" \in DOMAIN fwd.headers) =>
        /\ "Authorization" \in DOMAIN fwd.up_headers
        /\ IF ReplacesAuthorization
           THEN /\ \A k \in DOMAIN fwd.up_headers : fwd.up_headers[k] # <<"Bearer", "X">>
                /\ fwd.up_headers["Authorization"] =
                       IF FwdCred.service_type = "bearer" THEN <<"Bearer", FwdCred.credential>>
                       ELSE IF FwdCred.service_type = "atproto" THEN <<"Bearer", fwd.token>>
                       ELSE <<"raw", FwdCred.credential>>
           ELSE fwd.up_headers["Authorization"] = <<"Bearer", "X">>

\* a request carrying Authorization: Bearer X has been forwarded with a bearer
\* credential, and the upstream got the credential's Authorization
C6_Witness ==
    /\ fwd.sent
    /\ "Authorization" \in DOMAIN fwd.headers
    /\ FwdCred.service_type = "bearer"
    /\ fwd.up_headers["Authorization"] = <<"Bearer", "tokB">>

(* C6 as stated: when the inbound request carries Authorization: Bearer X, the
   client-supplied value never reaches the upstream, for every credential
   strategy, also when the credential has no token or token acquisition fails. *)
C6_Original ==
    (fwd.sent /\ "Authorization" \in DOMAIN fwd.headers) =>
        \A k \in DOMAIN fwd.up_headers : fwd.up_headers[k] # <<"Bearer", "X">>

(* C4: a fetch-bundle or push-bundle request gets past authorization if and only
   if its X-Session-Id names a present, unexpired session granting "git" or its
   X-Auth-Key equals the configured secret; every other request ends with 401,
   having created no temporary file or directory and run no external process. *)
C4_GitAuthorization ==
    job.pc # "idle" =>
        /\ (response.status = "401") <=> ~(job.session_ok \/ job.key = SECRET_KEY)
        /\ response.status = "401" =>
               (job.pc = "done" /\ job.made = {} /\ job.procs = <<>>)

\* a request with a live "git" session and a wrong legacy key runs git clone
C4_Witness ==
    /\ job.pc \in {"bundle", "fetch"}
    /\ job.session_ok
    /\ job.key = WrongKey
    /\ job.procs = <<"clone">>

(* C9: in push-bundle, once git push has succeeded the request ends with status
   "success", whatever happens in the PR stage. *)
C9_PushedEndsSuccess ==
    (job.pc = "done" /\ job.pushed) =>
        (response.status = "200" /\ response.body_status = "success")

\* {repo}/pull/new/{branch}: the repository's URL without a trailing "/" or
\* ".git", followed by /pull/new/ and the branch
pull_new_url(repo_url, branch) ==
    LET u == rstrip_slash(repo_url)
        v == IF u # <<>> /\ u[Len(u)] = ".git" THEN SubSeq(u, 1, Len(u) - 1) ELSE u
    IN  v \o <<"/", "pull", "/", "new", "/", branch>>

(* C10: in push-bundle with create_pr=true, whenever the push succeeded and no PR
   was created, the response carries pr_created=false and a manual_pr_url of the
   form {repo}/pull/new/{branch}. *)
C10_ManualUrlWhenNoPr ==
    (job.pc = "done" /\ job.pushed /\ job.create_pr /\ response.pr_created # "True") =>
        /\ response.pr_created = "False"
        /\ response.manual_pr_url = pull_new_url(job.repo_url, job.branch)

(* C3: a /proxy/{service}/{path} request is handed to forward_request only if
   service is not "git", it carries an X-Session-Id, that session is present and
   unexpired, and the session grants service; otherwise it ends with 400 (git),
   401 (missing, unknown, revoked or expired session) or 403 (service not
   granted).  A valid X-Auth-Key alone does not authorize it. *)
C3_ProxyAuthorization ==
    ret.op = "proxy_request" =>
        /\ ret.result = "forward_request" <=>
               /\ ret.service # "git"
               /\ Truthy(ret.id)
               /\ Live(ret.id)
               /\ ret.service \in hist[ret.id].services
        /\ ret.service = "git" => ret.result = "400"
        /\ (ret.service # "git" /\ ~(Truthy(ret.id) /\ Live(ret.id))) => ret.result = "401"
        /\ (ret.service # "git" /\ Truthy(ret.id) /\ Live(ret.id)
              /\ ret.service \notin hist[ret.id].services) => ret.result = "403"

\* a request carrying the valid legacy key and no live session is refused with 401
C3_Witness ==
    /\ ret.op = "proxy_request"
    /\ ret.key = SECRET_KEY
    /\ ret.service # "git"
    /\ ret.result = "401"
    /\ \E id \in DOMAIN hist : Live(id) /\ ret.service \in hist[id].services

----------------------------------------------------------------------------
(* server/credentials.py: the ATProto sub-session of a ServiceCredential.
   Threads of the Flask server call inject_auth on atproto credentials; each
   credential has its own _session_lock and its own cached _atproto_session.
   Time is datetime.utcnow() in minutes, kept in `now`.  A thread's call is
   followed from its entry until _get_atproto_token returns or raises; the two
   network calls are in flight between the step that issues them and the step
   that receives their outcome. *)

Threads == {"t1", "t2"}

AtprotoServices == {"bsky", "bsky2"}

\* timedelta(minutes=5), in minutes
RefreshMargin == 5

\* timedelta(hours=2), in minutes
SessionValidity == 120

\* the clock is observed every ClockStep minutes, up to MaxUtcNow
ClockStep == 5

MaxUtcNow == 10

\* _atproto_session = None
NoATProtoSession == [absent |-> TRUE]

\* a sub-session cached with the time of issuance as its expiry
ATProtoSession_no_validity(k, expires_at) ==
    [access_jwt |-> k, refresh_jwt |-> k, expires_at |-> expires_at - SessionValidity]

\* the k-th token pair the upstream issued: accessJwt and refreshJwt are both
\* identified by k
ATProtoSession(k, expires_at) ==
    [access_jwt |-> k, refresh_jwt |-> k, expires_at |-> expires_at]

\* the sub-sessions a credential can hold when the calls under study begin:
\* none, one that is already inside the refresh margin, one that has exactly
\* the margin left, one that enters the margin a clock step later
CachedSessions ==
    {NoATProtoSession} \cup
    {ATProtoSession(0, e) : e \in {0, RefreshMargin, RefreshMargin + ClockStep}}

\* atproto credentials as _parse_service_config builds them: identifier and
\* app_password come from the configuration and may be missing
AtprotoCredentials ==
    LET full == ServiceCredential("atproto", None, None, None)
    IN  {full, [full EXCEPT !.identifier = None]}

\* how a network call of the credential ends: a well-formed 2xx reply, a
\* requests.exceptions.RequestException (connection error, timeout, HTTP error
\* status), or a 2xx reply without the expected fields (KeyError)
ReplyOutcomes == {"ok", "request_exception", "bad_reply"}

\* found and left: whether the thread found a sub-session cached when it took
\* the lock, and the minutes that sub-session then had before its expires_at;
\* calls: the network calls the thread has issued, in order; replies: how those
\* that are over ended
IdleThread ==
    [pc |-> "idle", service |-> None, started |-> None, overlapped |-> FALSE,
     turn |-> 0, refreshes |-> 0, creates |-> 0, made |-> None,
     result |-> None, token |-> -1,
     found |-> FALSE, left |-> 0, calls |-> <<>>, replies |-> <<>>]

InCall == {"wait", "refreshing", "creating"}

\* a sub-session with exactly the margin left is still reused
cache_state_inclusive(session, t) ==
    IF session = NoATProtoSession THEN "empty"
    ELSE IF session.expires_at >= t + RefreshMargin THEN "fresh"
    ELSE "near"

\* lines 108-110 as the caller would evaluate them at time t
cache_state(session, t) ==
    IF session = NoATProtoSession THEN "empty"
    ELSE IF session.expires_at > t + RefreshMargin THEN "fresh"
    ELSE "near"

\* no mutual exclusion: every thread enters the critical section at once
lock_free_unlocked(holder) == TRUE

\* threading.Lock: `with self._session_lock` proceeds only when nobody holds it
lock_free(holder) == holder = None

\* _create_atproto_session up to the point where requests.post is issued
StartCreate(thread, cred) ==
    IF ~StrTruthy(cred.identifier) \/ ~StrTruthy(cred.app_password)
    THEN [thread EXCEPT !.pc = "done", !.result = "none"]
    ELSE [thread EXCEPT !.pc = "creating", !.creates = @ + 1,
                        !.calls = Append(@, "create")]

\* a lock that an exception leaves held
Holder_kept_on_raise(thread, t) ==
    IF thread.pc = "done" /\ thread.result # "raise" THEN None ELSE t

\* the lock after a step that leaves thread t in state thread
Holder(thread, t) == IF thread.pc = "done" THEN None ELSE t

\* a thread enters inject_auth on service s and reaches `with self._session_lock`
InjectAuth(t, s) ==
    /\ th[t].pc = "idle"
    /\ LET others == {u \in Threads \ {t} : th[u].pc \in InCall /\ th[u].service = s}
       IN  th' = [u \in Threads |->
                    IF u = t
                    THEN [IdleThread EXCEPT !.pc = "wait", !.service = s,
                              !.started = cache_state(atproto_session[s], now),
                              !.overlapped = others # {}]
                    ELSE IF u \in others THEN [th[u] EXCEPT !.overlapped = TRUE]
                    ELSE th[u]]
    /\ UNCHANGED <<sessVars, gitVars, storeVars, fwdVars, atproto_session, session_lock, issued>>

\* _get_atproto_token from taking the lock to returning the cached token or
\* issuing refreshSession or createSession
AcquireLock(t) ==
    /\ th[t].pc = "wait"
    /\ lock_free(session_lock[th[t].service])
    /\ LET s == th[t].service
           session == atproto_session[s]
           me == [th[t] EXCEPT !.turn =
                     1 + Cardinality({u \in Threads : th[u].service = s /\ th[u].turn > 0}),
                     !.found = session # NoATProtoSession,
                     !.left = IF session # NoATProtoSession
                              THEN session.expires_at - now ELSE 0]
           after ==
               IF cache_state(session, now) = "fresh"
               THEN [me EXCEPT !.pc = "done", !.result = "token",
                               !.token = session.access_jwt]
               ELSE IF cache_state(session, now) = "near"
               THEN [me EXCEPT !.pc = "refreshing", !.refreshes = @ + 1,
                               !.calls = Append(@, "refresh")]
               ELSE StartCreate(me, creds[s])
       IN  /\ th' = [th EXCEPT ![t] = after]
           /\ session_lock' = [session_lock EXCEPT ![s] = Holder(after, t)]
    /\ UNCHANGED <<sessVars, gitVars, storeVars, fwdVars, atproto_session, issued>>

\* _refresh_atproto_session from the reply of refreshSession on, and what
\* _get_atproto_token does next
RefreshReturn(t, outcome) ==
    /\ th[t].pc = "refreshing"
    /\ LET s == th[t].service
           me == [th[t] EXCEPT !.replies = Append(@, outcome)]
           after ==
               IF outcome = "ok"
               THEN [me EXCEPT !.pc = "done", !.made = "refreshed",
                               !.result = "token", !.token = issued + 1]
               ELSE IF outcome = "request_exception"
               THEN StartCreate(me, creds[s])
               ELSE [me EXCEPT !.pc = "done", !.result = "raise"]
       IN  /\ th' = [th EXCEPT ![t] = after]
           /\ session_lock' = [session_lock EXCEPT ![s] = Holder(after, t)]
           /\ atproto_session' =
                  IF outcome = "ok"
                  THEN [atproto_session EXCEPT
                            ![s] = ATProtoSession(issued + 1, now + SessionValidity)]
                  ELSE IF outcome = "request_exception"
                  THEN [atproto_session EXCEPT ![s] = NoATProtoSession]
                  ELSE atproto_session
           /\ issued' = IF outcome = "ok" THEN issued + 1 ELSE issued
    /\ UNCHANGED <<sessVars, gitVars, storeVars, fwdVars>>

\* _create_atproto_session from the reply of createSession on, and the return
\* of _get_atproto_token
CreateReturn(t, outcome) ==
    /\ th[t].pc = "creating"
    /\ LET s == th[t].service
           me == [th[t] EXCEPT !.replies = Append(@, outcome)]
           after ==
               IF outcome = "ok"
               THEN [me EXCEPT !.pc = "done", !.made = "created",
                               !.result = "token", !.token = issued + 1]
               ELSE IF outcome = "request_exception"
               THEN [me EXCEPT !.pc = "done", !.result = "none"]
               ELSE [me EXCEPT !.pc = "done", !.result = "raise"]
       IN  /\ th' = [th EXCEPT ![t] = after]
           /\ session_lock' = [session_lock EXCEPT ![s] = Holder(after, t)]
           /\ atproto_session' =
                  IF outcome = "ok"
                  THEN [atproto_session EXCEPT
                            ![s] = ATProtoSession(issued + 1, now + SessionValidity)]
                  ELSE atproto_session
           /\ issued' = IF outcome = "ok" THEN issued + 1 ELSE issued
    /\ UNCHANGED <<sessVars, gitVars, storeVars, fwdVars>>

\* datetime.utcnow() advances
UtcTick ==
    /\ now + ClockStep <= MaxUtcNow
    /\ now' = now + ClockStep
    /\ UNCHANGED <<sessions, hist, ret, notSessVars>>

InitCred ==
    /\ sessions = EmptyMap
    /\ now = 0
    /\ hist = EmptyMap
    /\ ret = NoCall
    /\ GitIdle
    /\ fwd = NoForward
    /\ creds \in [AtprotoServices -> AtprotoCredentials]
    /\ atproto_session \in [AtprotoServices -> CachedSessions]
    /\ session_lock = [s \in AtprotoServices |-> None]
    /\ th = [t \in Threads |-> IdleThread]
    /\ issued = 0
    /\ StoreIdle

NextCred ==
    \/ \E t \in Threads, s \in AtprotoServices : InjectAuth(t, s)
    \/ \E t \in Threads : AcquireLock(t)
    \/ \E t \in Threads, outcome \in ReplyOutcomes : RefreshReturn(t, outcome)
    \/ \E t \in Threads, outcome \in ReplyOutcomes : CreateReturn(t, outcome)
    \/ UtcTick

SpecCred == InitCred /\ [][NextCred]_vars

\* two calls on the same credential that overlapped in time, both entered while
\* the cache was in the given state, and both over
BothStarted(t, u, state) ==
    /\ t # u
    /\ th[t].pc = "done" /\ th[u].pc = "done"
    /\ th[t].service = th[u].service
    /\ th[t].overlapped /\ th[u].overlapped
    /\ th[t].started = state /\ th[u].started = state
    /\ th[t].turn = 1 /\ th[u].turn = 2

Configured(s) == StrTruthy(creds[s].identifier) /\ StrTruthy(creds[s].app_password)

\* at most one refreshSession or createSession call of a credential is in flight
OneCallInFlight ==
    \A s \in AtprotoServices :
        Cardinality({t \in Threads :
            th[t].service = s /\ th[t].pc \in {"refreshing", "creating"}}) <= 1

(* C7: createSession calls of one atproto credential are never in flight
   together, and of two concurrent inject_auth calls that both entered with no
   cached sub-session, the caller that takes the lock second issues no
   createSession call and returns the first caller's token if the first
   caller's createSession succeeded; if the first caller's createSession failed
   (request error or malformed reply) the second caller issues its own, two
   calls in all; with identifier or app_password missing neither issues one. *)
C7_OneCreationIfFirstSucceeds ==
    /\ OneCallInFlight
    /\ \A t, u \in Threads :
         BothStarted(t, u, "empty") =>
            /\ th[t].creates = (IF Configured(th[t].service) THEN 1 ELSE 0)
            /\ th[t].made = "created" =>
                  /\ th[u].creates = 0
                  /\ th[u].result = "token"
                  /\ th[u].token = th[t].token
            /\ th[t].made # "created" =>
                  th[u].creates = (IF Configured(th[t].service) THEN 1 ELSE 0)
            /\ th[t].refreshes = 0 /\ th[u].refreshes = 0

\* the first caller created the sub-session and the second, which had entered
\* while the cache was still empty, returned the cached token
C7_Witness ==
    \E t, u \in Threads :
        /\ BothStarted(t, u, "empty")
        /\ th[t].creates = 1 /\ th[t].made = "created"
        /\ th[u].creates = 0 /\ th[u].result = "token"

(* C7 as stated: two concurrent inject_auth calls on one atproto credential with
   no cached sub-session make exactly one createSession call between them. *)
C7_Original ==
    \A t, u \in Threads :
        BothStarted(t, u, "empty") => th[t].creates + th[u].creates = 1

(* C8: within one atproto service at most one refresh or creation call is in
   flight; two concurrent inject_auth calls that both found the cached
   sub-session near expiry make exactly one refreshSession call between them;
   and a call waiting for the lock of a service whose lock is free can take it
   whatever the other services' locks are. *)
C8_OneRefresh ==
    /\ OneCallInFlight
    /\ \A t, u \in Threads :
         BothStarted(t, u, "near") => th[t].refreshes + th[u].refreshes = 1
    /\ \A t \in Threads :
         (th[t].pc = "wait" /\ session_lock[th[t].service] = None) =>
             ENABLED AcquireLock(t)

----------------------------------------------------------------------------
(* server/proxy_server.py: temporary resources of the git endpoints *)

(* C11: when a fetch-bundle request that answered with the bundle (send_file)
   has completed, the bundle temp file it created is no longer on the
   filesystem, and neither is its working directory. *)
C11_BundleDeletedAfterSend ==
    [][(/\ job.pc = "done"
        /\ job.endpoint = "fetch-bundle"
        /\ response.body_status = "send_file"
        /\ job'.pc = "idle")
          => (job.made \cap fs' = {})]_vars

(* C12: when fetch-bundle or push-bundle returns on a non-success path (a step
   exited non-zero, timed out or raised), every temporary resource the request
   created has been deleted. *)
C12_FailureReleasesAll ==
    (job.pc = "done" /\ response.status # "200") => (job.made \cap fs = {})

----------------------------------------------------------------------------
(* server/proxy_server.py: POST /sessions over a fixed Credential Store *)

\* the service names of the model in the order Python's sorted() gives them
name_order == <<"api", "bsky", "git", "nope", "svc", "unknown">>

\* sorted(names)
sorted(names) == SelectSeq(name_order, LAMBDA n : n \in names)

\* set(a_list)
ToSet(list) == {list[i] : i \in 1..Len(list)}

\* the ServiceCredential _parse_service_config builds for a configured name
CredFor(name) ==
    IF name = "bsky" THEN ServiceCredential("atproto", None, None, None)
    ELSE ServiceCredential("bearer", "tokB", None, None)

\* CredentialStore._credentials after loading a file that yields these names
Loaded(names) == [k \in names |-> CredFor(k)]

\* the "services" member of the request body: a JSON list of names, a string,
\* or null/absent; items is the list's elements or the string's content
RequestServices ==
    {[type |-> "list", items |-> l] :
        l \in {<<>>, <<"git">>, <<"bsky">>, <<"bsky", "git">>, <<"nope">>,
               <<"git", "nope">>, <<"git", "git">>}}
    \cup {[type |-> "str", items |-> <<"git">>], [type |-> "str", items |-> <<>>],
          [type |-> "null", items |-> <<>>]}

\* the "ttl_minutes" member of the request body
RequestTTLs == {-1, 0, 1, 480, 481}

\* the TTL range the MCP tool accepts
MinTTL == 1

MaxTTL == 480

\* no check of the requested names against the available ones
invalid_services_unchecked(services, available) == {}

\* set(services) - available
invalid_services(services, available) == ToSet(services.items) \ available

\* set(credential_store.list_services()) | {'git'}
available_services(store) == DOMAIN store \cup {"git"}

\* create_session: the status and body of a rejection, or "200"
create_session(services, store) ==
    IF services.items = <<>>
    THEN [status |-> "400", error |-> "services list is required", available |-> <<>>]
    ELSE IF services.type # "list"
    THEN [status |-> "400", error |-> "services must be a list", available |-> <<>>]
    ELSE IF invalid_services(services, available_services(store)) # {}
    THEN [status |-> "400", error |-> "unknown services",
          available |-> sorted(available_services(store))]
    ELSE [status |-> "200", error |-> "absent", available |-> <<>>]

\* POST /sessions, handled while no other answer is being returned
PostSessions(services, ttl_minutes) ==
  /\ ret = NoCall
  /\ LET answer == create_session(services, creds)
        request == [services |-> services, ttl_minutes |-> ttl_minutes]
    IN  IF answer.status # "200"
        THEN /\ ret' = Call("create_session", None, None, answer @@ request)
             /\ UNCHANGED <<sessions, now, hist, notSessVars>>
        ELSE \E session_id \in SessionIds \ DOMAIN hist :
               LET granted == ToSet(services.items)
                   session == Session(granted, now, ttl_minutes)
               IN  /\ sessions' = [k \in DOMAIN sessions \cup {session_id} |->
                                      IF k = session_id THEN session ELSE sessions[k]]
                   /\ hist' = [k \in DOMAIN hist \cup {session_id} |->
                                  IF k = session_id
                                  THEN [services |-> granted, created_at |-> now,
                                        ttl |-> ttl_minutes, revokes |-> 0]
                                  ELSE hist[k]]
                   /\ ret' = Call("create_session", session_id, None, answer @@ request)
                   /\ UNCHANGED <<now, notSessVars>>

\* the answer has been returned
ApiReturn ==
    /\ ret # NoCall
    /\ ret' = NoCall
    /\ UNCHANGED <<sessions, now, hist, notSessVars>>

InitApi ==
    /\ sessions = EmptyMap
    /\ now = 0
    /\ hist = EmptyMap
    /\ ret = NoCall
    /\ GitIdle
    /\ \E names \in SUBSET {"api", "bsky"} : creds = Loaded(names)
    /\ fwd = NoForward
    /\ CredIdle
    /\ StoreIdle

NextApi ==
    \/ \E services \in RequestServices, ttl \in RequestTTLs : PostSessions(services, ttl)
    \/ ApiReturn
    \/ Tick

SpecApi == InitApi /\ [][NextApi]_vars

(* C13: every session stored by POST /sessions has a lifetime
   expires_at - created_at of at least 1 and at most 480 minutes, whatever
   ttl_minutes the request carried. *)
C13_TTLClamped ==
    \A id \in DOMAIN sessions :
        LET lifetime == sessions[id].expires_at - sessions[id].created_at
        IN  MinTTL <= lifetime /\ lifetime <= MaxTTL

(* C14: every session in the Session Store has expires_at > created_at. *)
C14_ExpiresAfterCreated ==
    \A id \in DOMAIN sessions : sessions[id].expires_at > sessions[id].created_at

\* the requested services are a non-empty list of available names
ValidRequest(services) ==
    /\ services.type = "list"
    /\ services.items # <<>>
    /\ ToSet(services.items) \subseteq available_services(creds)

(* C15: POST /sessions stores a session, granting the requested names, exactly
   when the requested services are a non-empty list whose every name is a
   configured credential service or "git"; otherwise it answers 400 and leaves
   the Session Store unchanged, and when a name is unknown the answer lists the
   valid services sorted. *)
C15_ServicesValidated ==
    [][ret'.op = "create_session" =>
         LET services == ret'.result.services
         IN  /\ (ret'.result.status = "200") <=> ValidRequest(services)
             /\ ret'.result.status = "200" =>
                  /\ ret'.id \notin DOMAIN sessions
                  /\ DOMAIN sessions' = DOMAIN sessions \cup {ret'.id}
                  /\ sessions'[ret'.id].services = ToSet(services.items)
                  /\ \A k \in DOMAIN sessions : sessions'[k] = sessions[k]
             /\ ret'.result.status # "200" =>
                  /\ ret'.result.status = "400"
                  /\ sessions' = sessions
             /\ (services.type = "list" /\ services.items # <<>> /\ ~ValidRequest(services)) =>
                  ret'.result.available = sorted(DOMAIN creds \cup {"git"})]_vars

\* a request naming "git" and an unknown service was refused with the sorted
\* list of valid services while the store held a session
C15_Witness ==
    /\ ret.op = "create_session"
    /\ ret.result.services.items = <<"git", "nope">>
    /\ ret.result.status = "400"
    /\ ret.result.available = <<"api", "bsky", "git">>
    /\ DOMAIN sessions # {}

----------------------------------------------------------------------------
(* server/proxy.py: forward_request's error answers, and inject_auth's argument *)

(* C16: forward_request for a service name with no entry in the Credential
   Store answers 404 with a JSON error body, sends nothing upstream and does
   not call inject_auth. *)
C16_UnknownService404 ==
    (fwd # NoForward /\ fwd.service \notin DOMAIN creds) =>
        /\ fwd.status = "404"
        /\ is_json(fwd.body)
        /\ ~fwd.sent
        /\ ~fwd.injected

(* C17: inject_auth leaves the headers mapping it was given as it was: after
   the call the caller's mapping equals the filtered inbound headers that were
   passed in, for every strategy, and what was injected is in the returned
   mapping only. *)
C17_InjectAuthCopies ==
    fwd.injected =>
        /\ fwd.arg_after = filter_request_headers(fwd.headers)
        /\ fwd.sent =>
              \A k \in DOMAIN fwd.up_headers :
                  (k \notin DOMAIN fwd.arg_after \/ fwd.up_headers[k] # fwd.arg_after[k])
                      => fwd.up_headers[k] \in
                             {<<"Bearer", fwd.token>>, <<"Bearer", FwdCred.credential>>,
                              <<"raw", FwdCred.credential>>}

\* a bearer credential was injected over the client's own Authorization header:
\* the returned mapping holds the credential, the mapping passed in still the
\* client's value
C17_Witness ==
    /\ fwd.injected /\ fwd.sent
    /\ FwdCred.service_type = "bearer"
    /\ "Authorization" \in DOMAIN fwd.arg_after
    /\ fwd.arg_after["Authorization"] = <<"Bearer", "X">>
    /\ fwd.up_headers["Authorization"] = <<"Bearer", "tokB">>

(* C20: when the upstream call fails, forward_request answers with a gateway
   status and a JSON error body: 504 on a timeout, 502 on a connection failure,
   500 on any other exception. *)
C20_UpstreamFailureMapped ==
    (fwd.sent /\ fwd.body.kind # "stream") =>
        /\ fwd.status \in {"504", "502", "500"}
        /\ fwd.body.message = "upstream timeout" <=> fwd.status = "504"
        /\ fwd.body.message = "upstream connection failed" <=> fwd.status = "502"
        /\ fwd.body.message = "proxy error: " <=> fwd.status = "500"
        /\ is_json(fwd.body)

----------------------------------------------------------------------------
(* server/credentials.py: CredentialStore.reload next to the store's readers,
   and GET /services.  reload() runs in one thread: clear(), then _load() reads
   the file and inserts the credentials one at a time; other threads look the
   store up between any two of these steps. *)

\* the service names a credentials file can configure
ConfigNames == {"bsky", "git"}

\* the names looked up
LookupNames == ConfigNames \cup {"unknown"}

\* sorted(a_list): the elements in name_order, repeated ones kept
RECURSIVE sort_from(_, _)
sort_from(list, i) ==
    IF i > Len(name_order) THEN <<>>
    ELSE SelectSeq(list, LAMBDA n : n = name_order[i]) \o sort_from(list, i + 1)

\* CredentialStore.list_services
CredentialStore_list_services(store) == sorted(DOMAIN store)

\* GET /services appending 'git' without looking
list_services_always_git(store) ==
    sort_from(Append(CredentialStore_list_services(store), "git"), 1)

\* GET /services: the list in the answer
list_services(store) ==
    LET services == CredentialStore_list_services(store)
    IN  IF "git" \notin ToSet(services) THEN sort_from(Append(services, "git"), 1)
        ELSE sort_from(services, 1)

\* the file is rewritten while no reload is reading it
EditConfig(names) ==
    /\ loader.pc = "idle"
    /\ names # config
    /\ config' = names
    /\ UNCHANGED <<sessVars, gitVars, fwdVars, credVars, loader, reader, listed>>

\* reload: self._credentials.clear()
ReloadClear ==
    /\ loader.pc = "idle"
    /\ loader' = [pc |-> "cleared", old |-> DOMAIN creds, new |-> {}, todo |-> {}]
    /\ creds' = EmptyMap
    /\ listed' = [listed EXCEPT !.reloaded = TRUE]
    /\ UNCHANGED <<sessVars, gitVars, fwd, credVars, config, reader>>

\* _load: json.load(f)
ReloadRead ==
    /\ loader.pc = "cleared"
    /\ loader' = [loader EXCEPT !.pc = "loading", !.new = config, !.todo = config]
    /\ UNCHANGED <<sessVars, gitVars, fwdVars, credVars, config, reader, listed>>

\* _load: self._credentials[service_name] = cred, for the next item of the file
ReloadInsert(name) ==
    /\ loader.pc = "loading"
    /\ name \in loader.todo
    /\ creds' = [k \in DOMAIN creds \cup {name} |-> IF k = name THEN CredFor(name) ELSE creds[k]]
    /\ loader' = [loader EXCEPT !.todo = @ \ {name}]
    /\ listed' = [listed EXCEPT !.reloaded = TRUE]
    /\ UNCHANGED <<sessVars, gitVars, fwd, credVars, config, reader>>

\* _load and reload return
ReloadEnd ==
    /\ loader.pc = "loading"
    /\ loader.todo = {}
    /\ loader' = IdleLoader
    /\ UNCHANGED <<sessVars, gitVars, fwdVars, credVars, config, reader, listed>>

\* the service is configured before the reload in progress and after it (or, with
\* no reload in progress, configured)
Stable(service) ==
    IF loader.pc = "idle" THEN service \in DOMAIN creds
    ELSE service \in loader.old /\ service \in config

Read(op, service, found) ==
    [op |-> op, service |-> service, found |-> found, stable |-> Stable(service)]

\* another thread calls get(service)
StoreGet(service) ==
    /\ reader' = Read("get", service, service \in DOMAIN creds)
    /\ UNCHANGED <<sessVars, gitVars, fwdVars, credVars, config, loader, listed>>

\* another thread calls list_services() and looks for service in the answer
StoreList(service) ==
    /\ reader' = Read("list_services", service,
                      service \in ToSet(CredentialStore_list_services(creds)))
    /\ UNCHANGED <<sessVars, gitVars, fwdVars, credVars, config, loader, listed>>

\* another thread calls forward_request for service: found unless it answers 404
StoreForward(service) ==
    /\ reader' = Read("forward_request", service,
                      forward_request(service, EmptyMap, "", None, "response", "boom").status
                          # "404")
    /\ UNCHANGED <<sessVars, gitVars, fwdVars, credVars, config, loader, listed>>

\* GET /services
GetServices ==
    /\ listed' = [calls |-> IF listed.calls = 0 THEN 1 ELSE 2,
                  prev |-> listed.last,
                  last |-> list_services(creds),
                  configured |-> DOMAIN creds,
                  reloaded |-> FALSE,
                  between |-> listed.reloaded]
    /\ UNCHANGED <<sessVars, gitVars, fwdVars, credVars, config, loader, reader>>

InitStore ==
    /\ sessions = EmptyMap
    /\ now = 0
    /\ hist = EmptyMap
    /\ ret = NoCall
    /\ GitIdle
    /\ config \in SUBSET ConfigNames
    /\ creds = Loaded(config)
    /\ fwd = NoForward
    /\ CredIdle
    /\ loader = IdleLoader
    /\ reader = NoRead
    /\ listed = NoListing

NextStore ==
    \/ \E names \in SUBSET ConfigNames : EditConfig(names)
    \/ ReloadClear
    \/ ReloadRead
    \/ \E name \in ConfigNames : ReloadInsert(name)
    \/ ReloadEnd
    \/ \E service \in LookupNames : StoreGet(service)
    \/ \E service \in LookupNames : StoreList(service)
    \/ \E service \in LookupNames : StoreForward(service)
    \/ GetServices

SpecStore == InitStore /\ [][NextStore]_vars

(* C18: a get(service), list_services() or forward_request concurrent with
   reload(), for a service configured both before and after the reload, finds
   the service. *)
C18_ReloadAtomic ==
    (reader.op # "none" /\ reader.stable) => reader.found

\* the position of a name in sorted order
Rank(name) == CHOOSE i \in 1..Len(name_order) : name_order[i] = name

(* C19: two GET /services calls with no reload() between them give identical
   lists; every list is sorted, holds every configured credential service, and
   holds "git" exactly once. *)
C19_ServicesListing ==
    /\ (listed.calls = 2 /\ ~listed.between) => listed.prev = listed.last
    /\ listed.calls >= 1 =>
          /\ \A i, j \in 1..Len(listed.last) :
                 i < j => Rank(listed.last[i]) <= Rank(listed.last[j])
          /\ listed.configured \subseteq ToSet(listed.last)
          /\ Cardinality({i \in 1..Len(listed.last) : listed.last[i] = "git"}) = 1

\* GET /services was called twice with no reload between, on a store that
\* configures a credential named "git" next to another one
C19_Witness ==
    /\ listed.calls = 2 /\ ~listed.between
    /\ listed.configured = {"bsky", "git"}
    /\ listed.last = <<"bsky", "git">>

----------------------------------------------------------------------------
(* server/proxy.py and server/credentials.py: failures of credential injection *)

(* C21: when inject_auth raises an unexpected exception (a createSession or
   refreshSession reply that is malformed), forward_request answers 500 with a
   JSON error body instead of letting the exception out. *)
C21_InjectionFailure500 ==
    (fwd.injected /\ fwd.token = "raise") =>
        (fwd.status = "500" /\ is_json(fwd.body))

(* C22: when an inject_auth call on an atproto credential ends without a token
   because its createSession call failed, after a failed refresh or with nothing
   cached, or because identifier/app_password is missing, it raised nothing and
   it leaves the cached sub-session empty. *)
C22_AllAttemptsFail ==
    [][\A t \in Threads :
          (/\ th[t].pc # "done" /\ th'[t].pc = "done" /\ th'[t].result # "token"
           /\ (th'[t].creates = 1 \/ ~Configured(th'[t].service))) =>
              /\ th'[t].result = "none"
              /\ atproto_session'[th'[t].service] = NoATProtoSession]_vars

----------------------------------------------------------------------------
(* server/sessions.py: get and count *)

\* the TTL of an issued id has run out
TTLOver(id) == now > hist[id].created_at + hist[id].ttl

(* C23: get(id) returns the session and leaves the store unchanged if the
   session is present and unexpired; removes exactly that entry and returns
   absent if it is present but expired; returns absent and leaves the store
   unchanged if the id is not present. *)
C23_GetFrame ==
    [][ret'.op = "get" =>
         LET id == ret'.id
         IN  IF id \notin DOMAIN sessions
             THEN ret'.result = NoSession /\ sessions' = sessions
             ELSE IF TTLOver(id)
             THEN /\ ret'.result = NoSession
                  /\ DOMAIN sessions' = DOMAIN sessions \ {id}
                  /\ \A k \in DOMAIN sessions' : sessions'[k] = sessions[k]
             ELSE /\ ret'.result = sessions[id]
                  /\ ret'.result.services = hist[id].services
                  /\ sessions' = sessions]_vars

\* get on an expired session has evicted it while another session stays stored
C23_Witness ==
    /\ ret.op = "get"
    /\ ret.id \in DOMAIN hist /\ hist[ret.id].revokes = 0 /\ TTLOver(ret.id)
    /\ ret.result = NoSession
    /\ ret.id \notin DOMAIN sessions
    /\ DOMAIN sessions # {}

(* C24: count() returns the number of stored sessions that are unexpired at the
   time of the call, which is the number of issued, unrevoked ids whose TTL has
   not run out, and removes nothing from the store. *)
C24_CountUnexpired ==
    [][ret'.op = "count" =>
         /\ ret'.result = Cardinality({id \in DOMAIN hist : Live(id)})
         /\ ret'.result = Cardinality({id \in DOMAIN sessions : ~TTLOver(id)})
         /\ sessions' = sessions]_vars

\* count() returned 1 while the store held a live session and an expired one
\* that had not been evicted
C24_Witness ==
    /\ ret.op = "count"
    /\ ret.result = 1
    /\ Cardinality(DOMAIN sessions) = 2
    /\ \E id \in DOMAIN sessions : TTLOver(id)

----------------------------------------------------------------------------
(* server/sessions.py: what the values returned by the Session Store share with
   the store.  Session is a plain (unfrozen) dataclass and services a list:
   create and get return the stored object itself, list_sessions builds new
   dicts whose 'services' member is the stored list.  A caller holding such a
   value can assign through it. *)

\* list_sessions: the ids of the sessions listed
list_sessions_result(store, t) == DOMAIN store \ expired_ids(store, t)

\* the fields of stored records that the value returned by the last call lets
\* its holder assign to, as <<id, field>>
exposed(call) ==
    IF call.op \in {"create", "get"} /\ call.result # NoSession
    THEN {<<call.id, "services">>, <<call.id, "expires_at">>}
    ELSE IF call.op = "list_sessions"
    THEN {<<id, "services">> : id \in call.result}
    ELSE {}

ListSessions ==
    /\ ret' = Call("list_sessions", None, None, list_sessions_result(sessions, now))
    /\ UNCHANGED <<sessions, now, hist, notSessVars>>

\* the caller appends a service to the services list it was handed
CallerAppends(id, service) ==
    /\ <<id, "services">> \in exposed(ret)
    /\ id \in DOMAIN sessions
    /\ service \notin sessions[id].services
    /\ sessions' = [sessions EXCEPT ![id].services = @ \cup {service}]
    /\ UNCHANGED <<now, hist, ret, notSessVars>>

\* the caller assigns expires_at on the Session it was handed
CallerExtends(id) ==
    /\ <<id, "expires_at">> \in exposed(ret)
    /\ id \in DOMAIN sessions
    /\ sessions[id].expires_at <= MaxNow
    /\ sessions' = [sessions EXCEPT ![id].expires_at = @ + 1]
    /\ UNCHANGED <<now, hist, ret, notSessVars>>

NextAlias ==
    \/ \E services \in SUBSET Services, ttl \in TTLs : CreateOne(services, ttl)
    \/ \E id \in CallerIds : Get(id)
    \/ \E id \in CallerIds, service \in Services : HasService(id, service)
    \/ ListSessions
    \/ \E id \in SessionIds, service \in Services : CallerAppends(id, service)
    \/ \E id \in SessionIds : CallerExtends(id)
    \/ Tick

SpecAlias == Init /\ [][NextAlias]_vars

(* C25: whatever a caller does with the values returned by create, get or
   list_sessions, a stored session keeps the services it was created with and
   the expiry creation gave it. *)
C25_StoredRecordsImmutable ==
    \A id \in DOMAIN sessions :
        /\ sessions[id].services = hist[id].services
        /\ sessions[id].expires_at = hist[id].created_at + hist[id].ttl

----------------------------------------------------------------------------
(* server/proxy_server.py: the order of the git steps and the 400 answers *)

\* the external processes of a git request, in the order of the handler
StepOrder(endpoint) ==
    IF endpoint = "fetch-bundle" THEN <<"clone", "bundle">>
    ELSE <<"clone", "fetch", "push", "gh">>

(* C26: the processes a git request has run are an initial part of clone,
   bundle (fetch path) or clone, fetch, push, PR (push path), each run once and
   only after every earlier one exited zero; a non-zero exit of clone, bundle,
   fetch or push ends the request with 500 naming that step, a timeout of any
   step ends it with 408, and once the request has ended nothing more is run. *)
C26_StepsInOrder ==
    /\ [](job.pc # "idle" =>
            LET n == Len(job.procs)
            IN  /\ Len(job.exits) = n
                /\ n <= Len(StepOrder(job.endpoint))
                /\ job.procs = SubSeq(StepOrder(job.endpoint), 1, n)
                /\ \A i \in 1..(n - 1) : job.exits[i] = "ok"
                /\ (n > 0 /\ job.exits[n] = "fail" /\ job.procs[n] # "gh") =>
                       /\ job.pc = "done"
                       /\ response.status = "500"
                       /\ response.error = job.procs[n]
                /\ (n > 0 /\ job.exits[n] = "timeout") =>
                       (job.pc = "done" /\ response.status = "408"))
    /\ [][job.pc = "done" => (job' = job \/ job' = IdleJob)]_vars

\* git push timed out after clone and fetch exited zero: 408, and nothing after
C26_Witness ==
    /\ job.pc = "done"
    /\ job.procs = <<"clone", "fetch", "push">>
    /\ job.exits = <<"ok", "ok", "timeout">>
    /\ response.status = "408"

\* the request was let in by a live git session or the valid key
Authorized == job.session_ok \/ job.key = SECRET_KEY

(* C27: an authorized push-bundle request is answered 400 exactly when
   repo_url, branch or the bundle attachment is missing, an authorized
   fetch-bundle request exactly when repo_url is missing; a request answered
   400 has created no temp file or working directory and run no process. *)
C27_MissingInput400 ==
    (job.pc # "idle" /\ Authorized) =>
        /\ (job.pc = "done" /\ response.status = "400") <=>
               \/ job.repo_url = <<>>
               \/ job.endpoint = "push-bundle" /\ (job.branch = None \/ ~job.bundle)
        /\ response.status = "400" =>
               (job.made = {} /\ job.procs = <<>> /\ job.pc = "done")

----------------------------------------------------------------------------
(* server/credentials.py: CredentialStore._load and _parse_service_config *)

\* In SpecLoad, config is the parsed file, a sequence of [name, value] in the
\* order of config.items(); a value is [mapping, items]: whether the JSON value
\* is an object and, if so, its members as <<key, value>> pairs. loader is the
\* position of the for loop and creds is self._credentials.

KNOWN_SERVICES ==
    {[name |-> "bsky", base_url |-> "https://bsky.social/xrpc", type |-> "atproto"],
     [name |-> "github_api", base_url |-> "https://api.github.com", type |-> "bearer"]}

\* dict.get(key): the member's value, or None
dict_get(items, key) ==
    IF \E p \in items : p[1] = key THEN (CHOOSE p \in items : p[1] = key)[2] ELSE None

\* Python truth of a JSON string or None
truthy(v) == v # None /\ v # ""

\* a or b
py_or(a, b) == IF truthy(a) THEN a ELSE b

\* KNOWN_SERVICES.get(name, {}).get(key)
known_get(name, key) ==
    IF \E k \in KNOWN_SERVICES : k.name = name
    THEN LET k == CHOOSE k \in KNOWN_SERVICES : k.name = name
         IN  IF key = "base_url" THEN k.base_url ELSE k.type
    ELSE None

has_key(items, key) == \E p \in items : p[1] = key

\* inference that looks at token and credential first
infer_type_token_first(items) ==
    IF has_key(items, "token") \/ has_key(items, "credential") THEN "bearer"
    ELSE IF has_key(items, "identifier") \/ has_key(items, "app_password")
    THEN "atproto"
    ELSE None

\* lines 262-269: the type inferred from the keys of the entry, or None
infer_type(items) ==
    IF has_key(items, "identifier") \/ has_key(items, "app_password") THEN "atproto"
    ELSE IF has_key(items, "token") \/ has_key(items, "credential") THEN "bearer"
    ELSE None

\* _parse_service_config returning None
NoCredential ==
    [service_type |-> None, base_url |-> None, credential |-> None,
     auth_header |-> None, query_param |-> None, identifier |-> None,
     app_password |-> None]

\* the ServiceCredential _parse_service_config returns for a JSON object, or
\* NoCredential
parse_service_config(name, items) ==
    LET base_url == py_or(dict_get(items, "base_url"), known_get(name, "base_url"))
        given_type == py_or(dict_get(items, "type"), known_get(name, "type"))
        service_type ==
            IF truthy(given_type) THEN given_type ELSE infer_type(items)
        cred == [service_type |-> service_type, base_url |-> base_url,
                 credential |-> None, auth_header |-> None, query_param |-> None,
                 identifier |-> None, app_password |-> None]
    IN  IF ~truthy(base_url) THEN NoCredential
        ELSE IF service_type = None THEN NoCredential
        ELSE IF service_type = "atproto"
        THEN [cred EXCEPT !.identifier = dict_get(items, "identifier"),
                          !.app_password = dict_get(items, "app_password")]
        ELSE IF service_type = "bearer"
        THEN [cred EXCEPT !.credential = py_or(dict_get(items, "token"),
                                               dict_get(items, "credential"))]
        ELSE IF service_type = "header"
        THEN [cred EXCEPT !.credential = dict_get(items, "credential"),
                          !.auth_header = dict_get(items, "auth_header")]
        ELSE IF service_type = "query"
        THEN [cred EXCEPT !.credential = dict_get(items, "credential"),
                          !.query_param = dict_get(items, "query_param")]
        ELSE NoCredential

\* config.get on a JSON value that is not an object raises AttributeError
parse_raises(value) == ~value.mapping

\* an exception in one entry ends the whole load
resume_after_error_abort(i, n) == n + 1

\* the except clause inside the for loop: the loop goes on with the next entry
resume_after_error(i, n) == i + 1

JsonObject(items) == [mapping |-> TRUE, items |-> items]

\* the JSON values a configuration entry is drawn from
EntryValues ==
    { [mapping |-> FALSE, items |-> {}],
      JsonObject({}),
      JsonObject({<<"identifier", "handle">>, <<"app_password", "pw">>}),
      JsonObject({<<"token", "tok">>}),
      JsonObject({<<"base_url", "https://x">>}),
      JsonObject({<<"base_url", "https://x">>, <<"credential", "tok">>}),
      JsonObject({<<"base_url", "https://x">>, <<"app_password", "pw">>}),
      JsonObject({<<"base_url", "https://x">>, <<"token", "tok">>,
                  <<"identifier", "handle">>}),
      JsonObject({<<"base_url", "">>, <<"token", "tok">>}),
      JsonObject({<<"base_url", "https://x">>, <<"type", "header">>,
                  <<"credential", "tok">>, <<"auth_header", "X-Key">>}),
      JsonObject({<<"base_url", "https://x">>, <<"type", "query">>,
                  <<"credential", "tok">>}),
      JsonObject({<<"base_url", "https://x">>, <<"type", "oauth">>,
                  <<"token", "tok">>}),
      JsonObject({<<"type", "oauth">>, <<"token", "tok">>}),
      JsonObject({<<"type", "bearer">>, <<"token", "tok">>}) }

EntryNames == {"bsky", "github_api", "custom"}

\* the files: every order of every choice of distinct names, with any values
ConfigFiles ==
    UNION { { f \in [1..n -> [name : EntryNames, value : EntryValues]] :
                \A i, j \in 1..n : f[i].name = f[j].name => i = j } :
            n \in 0..Cardinality(EntryNames) }

\* one turn of the for loop of _load
LoadEntry ==
    /\ loader.pc = "for"
    /\ loader.i <= Len(config)
    /\ LET e == config[loader.i]
       IN  IF parse_raises(e.value)
           THEN /\ loader' = [loader EXCEPT !.i = resume_after_error(@, Len(config))]
                /\ creds' = creds
           ELSE LET cred == parse_service_config(e.name, e.value.items)
                IN  /\ loader' = [loader EXCEPT !.i = @ + 1]
                    /\ creds' = IF cred = NoCredential THEN creds
                                ELSE [k \in DOMAIN creds \cup {e.name} |->
                                         IF k = e.name THEN cred ELSE creds[k]]
    /\ UNCHANGED <<sessVars, gitVars, fwd, credVars, config, reader, listed>>

\* the loop is over and _load returns
LoadEnd ==
    /\ loader.pc = "for"
    /\ loader.i > Len(config)
    /\ loader' = [loader EXCEPT !.pc = "loaded"]
    /\ UNCHANGED <<sessVars, gitVars, fwdVars, credVars, config, reader, listed>>

InitLoad ==
    /\ sessions = EmptyMap
    /\ now = 0
    /\ hist = EmptyMap
    /\ ret = NoCall
    /\ GitIdle
    /\ FwdIdle
    /\ CredIdle
    /\ config \in ConfigFiles
    /\ loader = [pc |-> "for", i |-> 1]
    /\ reader = NoRead
    /\ listed = NoListing

NextLoad == LoadEntry \/ LoadEnd

SpecLoad == InitLoad /\ [][NextLoad]_vars

\* the claim's well-formed entry: a mapping with a base_url of its own or of a
\* known service, and a type that is given, known for the name, or inferable
\* from the credential keys, and is one of the four strategies
WellFormed(e) ==
    /\ e.value.mapping
    /\ LET items == e.value.items
           known == e.name \in {"bsky", "github_api"}
           own_url == \E p \in items : p[1] = "base_url" /\ p[2] # ""
           own_type == {p[2] : p \in {q \in items : q[1] = "type"}}
           keys == {p[1] : p \in items}
       IN  /\ own_url \/ known
           /\ IF own_type # {}
              THEN own_type \subseteq {"atproto", "bearer", "header", "query"}
              ELSE known \/ keys \cap {"identifier", "app_password", "token", "credential"} # {}

\* the names of the well-formed entries among the first n of the file
WellFormedNames(n) == {config[i].name : i \in {j \in 1..n : WellFormed(config[j])}}

(* C28: at every point of a load, the credentials loaded so far are exactly the
   well-formed entries among those the loop has passed, whatever malformed
   entries stand before, between or after them; when the load returns, every
   well-formed entry of the file is loaded and no other. *)
C28_MalformedSkipped ==
    /\ loader.i <= Len(config) + 1
    /\ DOMAIN creds = WellFormedNames(loader.i - 1)
    /\ loader.pc = "loaded" => DOMAIN creds = WellFormedNames(Len(config))

\* a load has returned with the first and third entry loaded although the value
\* between them is not a mapping
C28_Witness ==
    /\ loader.pc = "loaded"
    /\ Len(config) = 3
    /\ WellFormed(config[1]) /\ ~config[2].value.mapping /\ WellFormed(config[3])
    /\ DOMAIN creds = {config[1].name, config[3].name}

----------------------------------------------------------------------------
(* server/credentials.py: _get_atproto_token, reuse, refresh and creation *)

\* the thread's inject_auth call has passed the lock
PastLock(t) == th[t].pc \in {"refreshing", "creating", "done"}

(* C29: an inject_auth call on an atproto credential returns the cached access
   token without any network call exactly when, on taking the lock, it found a
   sub-session with strictly more than 5 minutes before its expires_at; a
   sub-session found with exactly 5 minutes or less always leads to a
   refreshSession call. *)
C29_ReuseOnlyIfFresh ==
    \A t \in Threads :
        PastLock(t) =>
            /\ (th[t].pc = "done" /\ th[t].result = "token" /\ th[t].calls = <<>>)
                   <=> (th[t].found /\ th[t].left > RefreshMargin)
            /\ (th[t].found /\ th[t].left > RefreshMargin) => th[t].made = None
            /\ (th[t].found /\ th[t].left <= RefreshMargin) =>
                   (Len(th[t].calls) >= 1 /\ th[t].calls[1] = "refresh")

\* one call has reused a sub-session with ClockStep more than the margin left,
\* another has gone to refresh one with exactly the margin left
C29_Witness ==
    \E t, u \in Threads :
        /\ th[t].pc = "done" /\ th[t].found /\ th[t].left = RefreshMargin + ClockStep
        /\ th[t].result = "token" /\ th[t].calls = <<>>
        /\ PastLock(u) /\ th[u].found /\ th[u].left = RefreshMargin
        /\ th[u].calls = <<"refresh">>

\* the refreshSession call of thread t is over and did not succeed with a
\* RequestException
RefreshFailed(t) ==
    /\ Len(th[t].calls) >= 1 /\ th[t].calls[1] = "refresh"
    /\ Len(th[t].replies) >= 1 /\ th[t].replies[1] = "request_exception"

(* C30: in one inject_auth call on an atproto credential the network calls are
   none, refresh, create, or refresh then create: a refresh only if a
   sub-session was found with 5 minutes or less left, a create only if none was
   found or the refresh of this call failed; and the step that receives a
   successful refresh or create reply leaves the cache holding the newly issued
   token pair with expires_at equal to the time of that step plus 2 hours. *)
C30_RefreshThenCreate ==
    /\ [](\A t \in Threads :
            /\ th[t].calls \in {<<>>, <<"refresh">>, <<"create">>, <<"refresh", "create">>}
            /\ th[t].refreshes = Cardinality({i \in DOMAIN th[t].calls : th[t].calls[i] = "refresh"})
            /\ th[t].creates = Cardinality({i \in DOMAIN th[t].calls : th[t].calls[i] = "create"})
            /\ "refresh" \in ToSet(th[t].calls) =>
                   (th[t].found /\ th[t].left <= RefreshMargin)
            /\ "create" \in ToSet(th[t].calls) => (~th[t].found \/ RefreshFailed(t)))
    /\ [][\A t \in Threads :
            (Len(th'[t].replies) = Len(th[t].replies) + 1
                /\ th'[t].replies[Len(th'[t].replies)] = "ok") =>
                /\ issued' = issued + 1
                /\ th'[t].token = issued'
                /\ atproto_session'[th[t].service] =
                       [access_jwt |-> issued', refresh_jwt |-> issued',
                        expires_at |-> now' + SessionValidity]]_vars

\* a call found a near-expiry sub-session, its refresh failed, its creation
\* succeeded a clock step after the call began, and the cache holds that token
C30_Witness ==
    \E t \in Threads :
        /\ th[t].pc = "done" /\ th[t].found
        /\ th[t].calls = <<"refresh", "create">>
        /\ th[t].replies = <<"request_exception", "ok">>
        /\ now > 0
        /\ atproto_session[th[t].service] =
               [access_jwt |-> th[t].token, refresh_jwt |-> th[t].token,
                expires_at |-> now + SessionValidity]

----------------------------------------------------------------------------
(* server/sessions.py and server/proxy_server.py: revoke and DELETE /sessions *)

(* C31: revoke(id) returns true exactly when the store holds an entry for id
   when it is called, expired or not, and leaves the store without that entry
   and otherwise as it was; DELETE /sessions/{id} answers 200 with status
   "revoked" exactly when the store held the entry, and 404 otherwise. *)
C31_RevokeReportsPresence ==
    [][/\ ret'.op = "revoke" =>
            /\ ret'.result = (ret'.id \in DOMAIN sessions)
            /\ sessions' = [k \in DOMAIN sessions \ {ret'.id} |-> sessions[k]]
       /\ ret'.op = "revoke_session" =>
            /\ ret'.result.revoked = (ret'.id \in DOMAIN sessions)
            /\ sessions' = [k \in DOMAIN sessions \ {ret'.id} |-> sessions[k]]
            /\ IF ret'.id \in DOMAIN sessions
               THEN ret'.result.status = "200" /\ ret'.result.body_status = "revoked"
               ELSE ret'.result.status = "404"]_vars

\* DELETE has answered 200 for a session whose TTL had already run out
C31_Witness ==
    /\ ret.op = "revoke_session"
    /\ ret.id \in DOMAIN hist
    /\ now > hist[ret.id].created_at + hist[ret.id].ttl
    /\ hist[ret.id].revokes = 1
    /\ ret.result.status = "200"

----------------------------------------------------------------------------
(* server/credentials.py: the strategy and the fields of a loaded entry *)

\* the entries the loop of _load has passed that are mappings with a base_url
\* of their own or of a known service
Parsed ==
    {i \in 1..(loader.i - 1) :
        /\ config[i].value.mapping
        /\ \/ \E p \in config[i].value.items : p[1] = "base_url" /\ p[2] # ""
           \/ config[i].name \in {"bsky", "github_api"}}

\* the claim's precedence: the entry's own type, else the known service's, else
\* atproto for identifier or app_password, else bearer for token or credential
ResolvedType(e) ==
    LET items == e.value.items
        keys == {p[1] : p \in items}
    IN  IF "type" \in keys THEN (CHOOSE p \in items : p[1] = "type")[2]
        ELSE IF e.name = "bsky" THEN "atproto"
        ELSE IF e.name = "github_api" THEN "bearer"
        ELSE IF keys \cap {"identifier", "app_password"} # {} THEN "atproto"
        ELSE IF keys \cap {"token", "credential"} # {} THEN "bearer"
        ELSE None

Strategies == {"atproto", "bearer", "header", "query"}

(* C32: every entry the load has passed that is a mapping with a base_url is
   loaded with the strategy that the precedence explicit type, known service,
   identifier/app_password, token/credential gives it, and is not loaded when
   that gives no strategy or one that is not known. *)
C32_TypePrecedence ==
    \A i \in Parsed :
        LET e == config[i]
        IN  IF ResolvedType(e) \in Strategies
            THEN e.name \in DOMAIN creds /\ creds[e.name].service_type = ResolvedType(e)
            ELSE e.name \notin DOMAIN creds

\* loaded: a custom entry with token and identifier as atproto, and an entry
\* for bsky whose explicit type bearer won over the known atproto
C32_Witness ==
    /\ loader.pc = "loaded"
    /\ \E i, j \in Parsed :
        /\ config[i].name = "custom"
        /\ {p[1] : p \in config[i].value.items} = {"base_url", "token", "identifier"}
        /\ creds["custom"].service_type = "atproto"
        /\ config[j].name = "bsky"
        /\ <<"type", "bearer">> \in config[j].value.items
        /\ creds["bsky"].service_type = "bearer"

(* C33: every ServiceCredential the store holds has a non-empty base_url and
   the fields of exactly its own strategy: a credential and no identifier or
   app_password for bearer, header and query, an identifier and an
   app_password and no credential for atproto. *)
C33_OneStrategyPopulated ==
    \A name \in DOMAIN creds :
        LET cred == creds[name]
        IN  /\ truthy(cred.base_url)
            /\ cred.service_type \in Strategies
            /\ IF cred.service_type = "atproto"
               THEN /\ truthy(cred.identifier) /\ truthy(cred.app_password)
                    /\ cred.credential = None
               ELSE /\ truthy(cred.credential)
                    /\ cred.identifier = None /\ cred.app_password = None

----------------------------------------------------------------------------
(* server/sessions.py: the same calls with and without cleanup_expired *)

\* In SpecLazy one sequence of create, get, has_service, revoke and count calls
\* is run on two stores: sessions, where cleanup_expired calls are interleaved,
\* and hist, where they are left out. issued counts the ids uuid4 has returned,
\* and ret.result holds what the call returned on each store.

IdOrder == <<"s1", "s2">>

IssuedIds == {IdOrder[k] : k \in 1..issued}

Both(swept, lazy) == [swept |-> swept, lazy |-> lazy]

StoreSet(store, session_id, session) ==
    [k \in DOMAIN store \cup {session_id} |->
        IF k = session_id THEN session ELSE store[k]]

LazyCreate(services, ttl_minutes) ==
    /\ issued < Len(IdOrder)
    /\ LET session_id == IdOrder[issued + 1]
           session == Session(services, now, ttl_minutes)
       IN  /\ sessions' = StoreSet(sessions, session_id, session)
           /\ hist' = StoreSet(hist, session_id, session)
           /\ ret' = Call("create", session_id, None, Both(session, session))
    /\ issued' = issued + 1
    /\ UNCHANGED <<now, gitVars, fwdVars, atproto_session, session_lock, th, storeVars>>

LazyGet(session_id) ==
    /\ sessions' = get_store(sessions, session_id, now)
    /\ hist' = get_store(hist, session_id, now)
    /\ ret' = Call("get", session_id, None,
                   Both(get_result(sessions, session_id, now),
                        get_result(hist, session_id, now)))
    /\ UNCHANGED <<now, notSessVars>>

LazyHasService(session_id, service) ==
    /\ sessions' = get_store(sessions, session_id, now)
    /\ hist' = get_store(hist, session_id, now)
    /\ ret' = Call("has_service", session_id, service,
                   Both(has_service_result(sessions, session_id, service, now),
                        has_service_result(hist, session_id, service, now)))
    /\ UNCHANGED <<now, notSessVars>>

LazyRevoke(session_id) ==
    /\ sessions' = revoke_store(sessions, session_id)
    /\ hist' = revoke_store(hist, session_id)
    /\ ret' = Call("revoke", session_id, None,
                   Both(revoke_result(sessions, session_id),
                        revoke_result(hist, session_id)))
    /\ UNCHANGED <<now, notSessVars>>

LazyCount ==
    /\ ret' = Call("count", None, None,
                   Both(count_result(sessions, now), count_result(hist, now)))
    /\ UNCHANGED <<sessions, now, hist, notSessVars>>

\* cleanup_expired, called on the first store only
LazyCleanup ==
    /\ sessions' = cleanup_store(sessions, now)
    /\ ret' = Call("cleanup_expired", None, None,
                   Both(Cardinality(expired_ids(sessions, now)), 0))
    /\ UNCHANGED <<now, hist, notSessVars>>

NextLazy ==
    \/ \E services \in SUBSET Services, ttl \in TTLs : LazyCreate(services, ttl)
    \/ \E id \in IssuedIds \cup {UnknownId} : LazyGet(id)
    \/ \E id \in IssuedIds \cup {UnknownId}, service \in Services : LazyHasService(id, service)
    \/ \E id \in IssuedIds \cup {UnknownId} : LazyRevoke(id)
    \/ LazyCount
    \/ LazyCleanup
    \/ Tick

SpecLazy == Init /\ [][NextLazy]_vars

\* cleanup_expired removes exactly the entries expired when it is called,
\* returns their number and leaves the others as they were
CleanupExact ==
    [][ret'.op = "cleanup_expired" =>
          /\ DOMAIN sessions' = {k \in DOMAIN sessions : now <= sessions[k].expires_at}
          /\ \A k \in DOMAIN sessions' : sessions'[k] = sessions[k]
          /\ ret'.result.swept = Cardinality(DOMAIN sessions) - Cardinality(DOMAIN sessions')
      ]_vars

(* C34: create, get, has_service and count return the same values whether or
   not cleanup_expired calls are interleaved, and so does revoke except on an
   id whose entry has expired, where it returns true only if neither a sweep
   nor a get has removed the entry before; cleanup_expired removes exactly the
   entries expired at the time of the call, returns their number and leaves
   every unexpired entry untouched. *)
C34_SweepUnobservedButByRevoke ==
    /\ [](ret.op \in {"create", "get", "has_service", "count"} =>
            ret.result.swept = ret.result.lazy)
    /\ [][ret'.op = "revoke" =>
            /\ ret'.result.swept => ret'.result.lazy
            /\ (ret'.id \notin DOMAIN hist \/ now <= hist[ret'.id].expires_at)
                   => ret'.result.swept = ret'.result.lazy]_vars
    /\ CleanupExact

\* a sweep has removed an expired entry and left an unexpired one, and a count
\* after it has returned the same number on both stores
C34_Witness ==
    /\ ret.op = "count"
    /\ ret.result.swept = 1 /\ ret.result.lazy = 1
    /\ Cardinality(DOMAIN hist) = 2
    /\ Cardinality(DOMAIN sessions) = 1

(* C34 as stated: every call, revoke included, returns the same value whether
   or not cleanup_expired calls are interleaved. *)
C34_Original ==
    /\ [](ret.op \in {"create", "get", "has_service", "count", "revoke"} =>
            ret.result.swept = ret.result.lazy)
    /\ CleanupExact

----------------------------------------------------------------------------
(* server/sessions.py: concurrent calls on the Session Store *)

\* In SpecLock the threads of Threads call the store concurrently. Every method
\* runs its body under `with self._lock`; the body is taken apart at the points
\* where another thread could act if the lock did not keep it out: between the
\* membership test and the del of revoke, between the expiry test and the del
\* of get, between the scan and the deletions of cleanup_expired. session_lock
\* is the holder of self._lock. hist is the store of the sequential run in
\* which each call happens in one step, at the first step of its body; a
\* thread's expected is what the call returns in that run, result what it
\* returned here, raised whether a del met a missing key (KeyError).

StoreOps == {"create", "get", "revoke", "cleanup_expired", "count"}

LockTTLs == {0, 1}

IdleCaller ==
    [pc |-> "idle", op |-> None, id |-> None, ttl |-> 0, seen |-> {},
     overlapped |-> FALSE, raised |-> FALSE, result |-> None, expected |-> None]

\* the thread leaves the with block and returns
Leave(thread, result, expected) ==
    [thread EXCEPT !.pc = "done", !.result = result, !.expected = expected]

Unlock(t) == session_lock' = IF session_lock = t THEN None ELSE session_lock

\* a thread calls a method of the store and reaches `with self._lock`
LockCall(t, op, id, ttl) ==
    /\ th[t].pc = "idle"
    /\ op = "create" => (issued < Len(IdOrder) /\ id = None)
    /\ op \in {"get", "revoke"} <=> id # None
    /\ op # "create" => ttl = 0
    /\ LET others == {u \in Threads \ {t} : th[u].pc \notin {"idle", "done"}}
       IN  th' = [u \in Threads |->
                    IF u = t
                    THEN [IdleCaller EXCEPT !.pc = "wait", !.op = op, !.id = id,
                                            !.ttl = ttl, !.overlapped = others # {}]
                    ELSE IF u \in others THEN [th[u] EXCEPT !.overlapped = TRUE]
                    ELSE th[u]]
    /\ UNCHANGED <<sessVars, gitVars, fwdVars, atproto_session, session_lock, issued, storeVars>>

\* `with self._lock`
LockAcquire(t) ==
    /\ th[t].pc = "wait"
    /\ lock_free(session_lock)
    /\ session_lock' = t
    /\ th' = [th EXCEPT ![t].pc = "locked"]
    /\ UNCHANGED <<sessVars, gitVars, fwdVars, atproto_session, issued, storeVars>>

\* create: self._sessions[session_id] = session
CreateStore(t) ==
    /\ th[t].pc = "locked" /\ th[t].op = "create"
    /\ issued < Len(IdOrder)
    /\ LET session_id == IdOrder[issued + 1]
           session == Session({}, now, th[t].ttl)
       IN  /\ sessions' = StoreSet(sessions, session_id, session)
           /\ hist' = StoreSet(hist, session_id, session)
           /\ th' = [th EXCEPT ![t] = Leave([@ EXCEPT !.id = session_id], session, session)]
    /\ issued' = issued + 1
    /\ Unlock(t)
    /\ UNCHANGED <<now, ret, gitVars, fwdVars, atproto_session, storeVars>>

\* get: session = self._sessions.get(session_id), and session.is_expired()
GetRead(t) ==
    /\ th[t].pc = "locked" /\ th[t].op = "get"
    /\ LET id == th[t].id
           expected == get_result(hist, id, now)
       IN  /\ hist' = get_store(hist, id, now)
           /\ IF id \in DOMAIN sessions /\ is_expired(sessions[id], now)
              THEN /\ th' = [th EXCEPT ![t].pc = "evict", ![t].expected = expected]
                   /\ session_lock' = session_lock
              ELSE /\ th' = [th EXCEPT ![t] =
                                Leave(@, get_result(sessions, id, now), expected)]
                   /\ Unlock(t)
    /\ UNCHANGED <<sessions, now, ret, gitVars, fwdVars, atproto_session, issued, storeVars>>

\* get: del self._sessions[session_id]; return None
GetEvict(t) ==
    /\ th[t].pc = "evict"
    /\ LET id == th[t].id
       IN  IF id \in DOMAIN sessions
           THEN /\ sessions' = revoke_store(sessions, id)
                /\ th' = [th EXCEPT ![t] = Leave(@, NoSession, @.expected)]
           ELSE /\ sessions' = sessions
                /\ th' = [th EXCEPT ![t].pc = "done", ![t].raised = TRUE]
    /\ Unlock(t)
    /\ UNCHANGED <<now, hist, ret, gitVars, fwdVars, atproto_session, issued, storeVars>>

\* revoke: if session_id in self._sessions
RevokeTest(t) ==
    /\ th[t].pc = "locked" /\ th[t].op = "revoke"
    /\ LET id == th[t].id
           expected == revoke_result(hist, id)
       IN  /\ hist' = revoke_store(hist, id)
           /\ IF id \in DOMAIN sessions
              THEN /\ th' = [th EXCEPT ![t].pc = "del", ![t].expected = expected]
                   /\ session_lock' = session_lock
              ELSE /\ th' = [th EXCEPT ![t] = Leave(@, FALSE, expected)]
                   /\ Unlock(t)
    /\ UNCHANGED <<sessions, now, ret, gitVars, fwdVars, atproto_session, issued, storeVars>>

\* revoke: del self._sessions[session_id]; return True
RevokeDel(t) ==
    /\ th[t].pc = "del"
    /\ LET id == th[t].id
       IN  IF id \in DOMAIN sessions
           THEN /\ sessions' = revoke_store(sessions, id)
                /\ th' = [th EXCEPT ![t] = Leave(@, TRUE, @.expected)]
           ELSE /\ sessions' = sessions
                /\ th' = [th EXCEPT ![t].pc = "done", ![t].raised = TRUE]
    /\ Unlock(t)
    /\ UNCHANGED <<now, hist, ret, gitVars, fwdVars, atproto_session, issued, storeVars>>

\* cleanup_expired: the list expired_ids
CleanupScan(t) ==
    /\ th[t].pc = "locked" /\ th[t].op = "cleanup_expired"
    /\ hist' = cleanup_store(hist, now)
    /\ th' = [th EXCEPT ![t].pc = "sweep", ![t].seen = expired_ids(sessions, now),
                        ![t].expected = Cardinality(expired_ids(hist, now))]
    /\ UNCHANGED <<sessions, now, ret, gitVars, fwdVars, atproto_session, session_lock,
                   issued, storeVars>>

\* cleanup_expired: for sid in expired_ids: del self._sessions[sid]
CleanupSweep(t) ==
    /\ th[t].pc = "sweep"
    /\ IF th[t].seen \subseteq DOMAIN sessions
       THEN /\ sessions' = [k \in DOMAIN sessions \ th[t].seen |-> sessions[k]]
            /\ th' = [th EXCEPT ![t] = Leave(@, Cardinality(@.seen), @.expected)]
       ELSE /\ sessions' = [k \in DOMAIN sessions \ th[t].seen |-> sessions[k]]
            /\ th' = [th EXCEPT ![t].pc = "done", ![t].raised = TRUE]
    /\ Unlock(t)
    /\ UNCHANGED <<now, hist, ret, gitVars, fwdVars, atproto_session, issued, storeVars>>

\* count: the sum over self._sessions.values()
CountSum(t) ==
    /\ th[t].pc = "locked" /\ th[t].op = "count"
    /\ th' = [th EXCEPT ![t] = Leave(@, count_result(sessions, now), count_result(hist, now))]
    /\ Unlock(t)
    /\ UNCHANGED <<sessVars, gitVars, fwdVars, atproto_session, issued, storeVars>>

\* the caller has the value and is ready for its next call
LockReturn(t) ==
    /\ th[t].pc = "done"
    /\ th' = [th EXCEPT ![t] = IdleCaller]
    /\ UNCHANGED <<sessVars, gitVars, fwdVars, atproto_session, session_lock, issued, storeVars>>

InitLock ==
    /\ sessions = EmptyMap
    /\ now = 0
    /\ hist = EmptyMap
    /\ ret = NoCall
    /\ GitIdle
    /\ FwdIdle
    /\ atproto_session = EmptyMap
    /\ session_lock = None
    /\ th = [t \in Threads |-> IdleCaller]
    /\ issued = 0
    /\ StoreIdle

NextLock ==
    \/ \E t \in Threads, op \in StoreOps, id \in IssuedIds \cup {None}, ttl \in LockTTLs :
           LockCall(t, op, id, ttl)
    \/ \E t \in Threads : LockAcquire(t)
    \/ \E t \in Threads : CreateStore(t)
    \/ \E t \in Threads : GetRead(t)
    \/ \E t \in Threads : GetEvict(t)
    \/ \E t \in Threads : RevokeTest(t)
    \/ \E t \in Threads : RevokeDel(t)
    \/ \E t \in Threads : CleanupScan(t)
    \/ \E t \in Threads : CleanupSweep(t)
    \/ \E t \in Threads : CountSum(t)
    \/ \E t \in Threads : LockReturn(t)
    \/ Tick

SpecLock == InitLock /\ [][NextLock]_vars

(* C35: under every interleaving of concurrent create, get, revoke,
   cleanup_expired and count calls, no call fails on a missing key, every call
   returns what it returns in the sequential run that takes the calls in the
   order in which they took the lock, the store is that run's store whenever no
   call is inside its body, and two revoke calls on one id never both return
   true. *)
C35_StoreCallsAtomic ==
    /\ \A t \in Threads :
          /\ ~th[t].raised
          /\ th[t].pc = "done" => th[t].result = th[t].expected
    /\ session_lock = None => sessions = hist
    /\ \A t, u \in Threads :
          (t # u /\ th[t].pc = "done" /\ th[u].pc = "done"
             /\ th[t].op = "revoke" /\ th[u].op = "revoke" /\ th[t].id = th[u].id)
          => ~(th[t].result /\ th[u].result)

\* two overlapping revoke calls on the same stored id are over: one returned
\* true, the other false
C35_Witness ==
    \E t, u \in Threads :
        /\ th[t].pc = "done" /\ th[u].pc = "done"
        /\ th[t].op = "revoke" /\ th[u].op = "revoke" /\ th[t].id = th[u].id
        /\ th[t].overlapped /\ th[u].overlapped
        /\ th[t].result = TRUE /\ th[u].result = FALSE

----------------------------------------------------------------------------
(* server/sessions.py: a revoked or expired session stays invalid *)

\* the last call was a get or has_service of id that found no valid session
\* although id had been issued
ReportedGone(id) ==
    /\ ret.id = id /\ id \in DOMAIN hist
    /\ \/ ret.op = "get" /\ ret.result = NoSession
       \/ ret.op = "has_service" /\ ret.service \in hist[id].services
            /\ ret.result = FALSE

\* the last call was a get or has_service of id and it found a valid session
ReportedValid(id) ==
    /\ ret.id = id
    /\ \/ ret.op = "get" /\ ret.result # NoSession
       \/ ret.op = "has_service" /\ ret.result = TRUE

(* C36: once a get or has_service of an issued id has found no valid session,
   which happens only when the session was revoked or its TTL had run out, no
   later get of that id returns a session and no later has_service of it
   returns true, whatever calls come between: the report leaves the store
   without the id, an issued id that is not in the store never enters it
   again, and only an id in the store is reported valid. *)
C36_GoneStaysGone ==
    /\ [](\A id \in SessionIds :
            /\ ReportedGone(id) =>
                  /\ (hist[id].revokes > 0 \/ now > hist[id].created_at + hist[id].ttl)
                  /\ id \notin DOMAIN sessions
            /\ ReportedValid(id) => id \in DOMAIN sessions)
    /\ [][\A id \in DOMAIN hist :
            id \notin DOMAIN sessions => id \notin DOMAIN sessions']_vars

\* a session was reported absent by get after its TTL ran out, and a later
\* has_service of it, with other sessions created meanwhile, returned false
C36_Witness ==
    /\ ret.op = "has_service" /\ ret.id \in DOMAIN hist
    /\ ret.service \in hist[ret.id].services
    /\ ret.result = FALSE
    /\ hist[ret.id].revokes = 0
    /\ now > hist[ret.id].created_at + hist[ret.id].ttl
    /\ Cardinality(DOMAIN hist) = 2

----------------------------------------------------------------------------
(* server/proxy_server.py: a session revoked or expiring while a request runs *)

\* In SpecInflight one request at a time is handled, a git bundle request or a
\* proxy request, while revoke calls and the clock go on. For a proxy request
\* job.pc is "forward" between the session check of proxy_request and the
\* upstream call of forward_request, fwd.service is the service it names, and
\* job.session_ok records whether the X-Session-Id named a live session
\* granting that service when the check was made.

InflightHeaders == {[k \in {"X-Session-Id", "Accept"} |-> ClientValue(k)]}

\* proxy_request up to its return or its call of forward_request
ProxyBegin(service, session_id) ==
    /\ job.pc = "idle"
    /\ fwd = NoForward
    /\ sessions' = proxy_request_store(sessions, service, session_id, now)
    /\ LET result == proxy_request(sessions, service, session_id, NoHeader, now)
           j == [IdleJob EXCEPT !.endpoint = "proxy", !.key = NoHeader,
                     !.session_ok = Truthy(session_id) /\ Live(session_id)
                                     /\ service \in hist[session_id].services]
       IN  IF result = "forward_request"
           THEN /\ job' = [j EXCEPT !.pc = "forward"]
                /\ fwd' = [NoForward EXCEPT !.service = service]
                /\ response' = NoResponse
           ELSE /\ job' = [j EXCEPT !.pc = "done"]
                /\ fwd' = fwd
                /\ response' = ErrorResponse(result, "proxy_request")
    /\ UNCHANGED <<now, hist, ret, gh_path, fs, creds, credVars, storeVars>>

\* forward_request: the upstream call and the response it gives
ProxyForward(headers, outcome) ==
    /\ job.pc = "forward"
    /\ fwd' = forward_request(fwd.service, headers, "", None, outcome, "boom")
    /\ job' = [job EXCEPT !.pc = "done"]
    /\ response' = [NoResponse EXCEPT !.status = fwd'.status]
    /\ UNCHANGED <<sessVars, gh_path, fs, creds, credVars, storeVars>>

InitInflight ==
    /\ \E st \in GitStores : sessions = st.sessions /\ hist = st.hist
    /\ now = 0
    /\ ret = NoCall
    /\ gh_path \in {None, "gh"}
    /\ job = IdleJob
    /\ fs = {}
    /\ response = NoResponse
    /\ creds = [k \in {"bsky"} |-> ServiceCredential("bearer", "tokB", None, None)]
    /\ fwd = NoForward
    /\ CredIdle
    /\ StoreIdle

\* the response has been returned; the next request can be handled
InflightFinish ==
    /\ job.pc = "done"
    /\ job' = IdleJob
    /\ response' = NoResponse
    /\ fwd' = NoForward
    /\ UNCHANGED <<sessVars, gh_path, fs, creds, credVars, storeVars>>

InflightRepos == {<<"https:", "/", "/", "github.com", "/", "owner", "/", "repo", ".git">>}

NextInflight ==
    \/ \E service \in Services, sid \in SessionIdHeaders : ProxyBegin(service, sid)
    \/ \E headers \in InflightHeaders, outcome \in UpstreamOutcomes :
           ProxyForward(headers, outcome)
    \/ \E sid \in SessionIdHeaders, key \in AuthKeyHeaders, repo_url \in InflightRepos :
           FetchBegin(sid, key, "object", repo_url)
    \/ \E sid \in SessionIdHeaders, key \in AuthKeyHeaders, repo_url \in InflightRepos,
          branch \in Branches, create_pr \in BOOLEAN :
           PushBegin(sid, key, repo_url, branch, TRUE, create_pr)
    \/ \E outcome \in Outcomes : RunClone(outcome)
    \/ \E outcome \in Outcomes : RunBundle(outcome)
    \/ \E outcome \in Outcomes : RunFetch(outcome)
    \/ \E outcome \in Outcomes : RunPush(outcome)
    \/ \E outcome \in Outcomes : RunGh(outcome)
    \/ InflightFinish
    \/ \E id \in CallerIds : Revoke(id)
    \/ Tick

SpecInflight == InitInflight /\ [][NextInflight]_vars

\* the request being handled has passed its authorization and is not over
Handling == job.pc \in {"clone", "bundle", "fetch", "push", "gh", "forward"}

\* the handler's next step, going well
StepOk ==
    \/ RunClone("ok") \/ RunBundle("ok") \/ RunFetch("ok") \/ RunPush("ok") \/ RunGh("ok")
    \/ \E headers \in InflightHeaders : ProxyForward(headers, "response")

\* the request has been forwarded or has run a git process
Acted == job.procs # <<>> \/ (job.endpoint = "proxy" /\ fwd.sent)

(* C37: a request that has passed its session check goes on whatever happens
   to the session afterwards: its next step can always be taken, and it is
   never answered 401 or 403 once it has been forwarded or has run a git
   step; and a request without the legacy key is forwarded or runs a git step
   only if, when it was checked, its X-Session-Id named a session granting the
   service that was neither revoked nor past its TTL. *)
C37_AuthorizedOnce ==
    /\ Handling => ENABLED StepOk
    /\ (Handling \/ Acted) =>
          /\ response.status \notin {"401", "403"}
          /\ job.session_ok \/ job.key = SECRET_KEY

\* a proxy request was forwarded to the upstream although its session had been
\* revoked between the session check and the upstream call
C37_Witness ==
    /\ job.endpoint = "proxy" /\ job.pc = "done"
    /\ fwd.sent /\ fwd.status = "upstream"
    /\ job.session_ok
    /\ hist["s1"].revokes = 1
    /\ "s1" \notin DOMAIN sessions

----------------------------------------------------------------------------
(* server/credentials.py: the lock of an atproto credential is always released *)

\* a thread that can take the lock does, and the network calls return
\* (requests.post is given timeout=10)
SpecCredLive ==
    /\ SpecCred
    /\ \A t \in Threads :
          /\ WF_vars(AcquireLock(t))
          /\ WF_vars(\E outcome \in ReplyOutcomes : RefreshReturn(t, outcome))
          /\ WF_vars(\E outcome \in ReplyOutcomes : CreateReturn(t, outcome))

(* C38: the lock of an atproto credential is held only by a thread that is
   inside _get_atproto_token with a network call outstanding, never by one
   whose inject_auth call is over, whatever its outcome (token reused,
   refreshed or created, no token, or an exception from a malformed reply);
   and every inject_auth call waiting for the lock eventually completes. *)
C38_LockReleased ==
    /\ [](\A s \in AtprotoServices :
            session_lock[s] # None =>
                /\ th[session_lock[s]].service = s
                /\ th[session_lock[s]].pc \in {"refreshing", "creating"})
    /\ \A t \in Threads : (th[t].pc = "wait") ~> (th[t].pc = "done")

\* a call that waited while another held the lock is over, after the other
\* ended with an exception raised while reading the upstream reply
C38_Witness ==
    \E t, u \in Threads :
        /\ th[u].pc = "done" /\ th[u].result = "raise" /\ th[u].turn = 1
        /\ th[t].pc = "done" /\ th[t].turn = 2
        /\ th[t].service = th[u].service
        /\ th[t].overlapped /\ th[u].overlapped
        /\ session_lock[th[t].service] = None

----------------------------------------------------------------------------
(* server/credentials.py: what reload() leaves *)

\* In SpecReload the threads of Threads call reload() while the file is
\* rewritten and inject_auth calls cache sub-sessions. config is the file:
\* missing, not valid JSON, or a mapping with the well-formed entries names.
\* loader[t] is the position of thread t in reload: old is the mapping it
\* cleared, new the entries it read, todo those it has still to insert, mark
\* the number of token pairs issued when it began, overlapped whether another
\* reload ran during it. atproto_session[s] is the _atproto_session of the
\* ServiceCredential the mapping holds for s.

MaxTokens == 2

Files ==
    {[kind |-> "missing", names |-> {}], [kind |-> "invalid", names |-> {}]}
        \cup {[kind |-> "mapping", names |-> N] : N \in SUBSET ConfigNames}

IdleReload ==
    [pc |-> "idle", old |-> {}, new |-> {}, todo |-> {}, mark |-> 0, overlapped |-> FALSE]

AtprotoNames(names) == {n \in names : CredFor(n).service_type = "atproto"}

\* the file is rewritten
WriteConfig(file) ==
    /\ file # config
    /\ config' = file
    /\ UNCHANGED <<sessVars, gitVars, fwdVars, credVars, loader, reader, listed>>

\* reload: self._credentials.clear()
ReloadClearBy(t) ==
    /\ loader[t].pc = "idle"
    /\ LET others == {u \in Threads \ {t} : loader[u].pc # "idle"}
       IN  loader' = [u \in Threads |->
                        IF u = t
                        THEN [IdleReload EXCEPT !.pc = "cleared", !.old = DOMAIN creds,
                                                !.mark = issued, !.overlapped = others # {}]
                        ELSE IF u \in others THEN [loader[u] EXCEPT !.overlapped = TRUE]
                        ELSE loader[u]]
    /\ creds' = EmptyMap
    /\ atproto_session' = EmptyMap
    /\ UNCHANGED <<sessVars, gitVars, fwd, session_lock, th, issued, config, reader, listed>>

\* _load: os.path.exists and json.load(f)
ReloadReadBy(t) ==
    /\ loader[t].pc = "cleared"
    /\ loader' = [loader EXCEPT ![t].pc = "loading",
                                ![t].new = IF config.kind = "mapping" THEN config.names ELSE {},
                                ![t].todo = IF config.kind = "mapping" THEN config.names ELSE {}]
    /\ UNCHANGED <<sessVars, gitVars, fwdVars, credVars, config, reader, listed>>

\* _load: self._credentials[service_name] = cred, a new ServiceCredential
ReloadInsertBy(t, name) ==
    /\ loader[t].pc = "loading"
    /\ name \in loader[t].todo
    /\ creds' = [k \in DOMAIN creds \cup {name} |-> IF k = name THEN CredFor(name) ELSE creds[k]]
    /\ atproto_session' =
           [k \in DOMAIN atproto_session \cup AtprotoNames({name}) |->
               IF k = name THEN NoATProtoSession ELSE atproto_session[k]]
    /\ loader' = [loader EXCEPT ![t].todo = @ \ {name}]
    /\ UNCHANGED <<sessVars, gitVars, fwd, session_lock, th, issued, config, reader, listed>>

\* _load and reload return
ReloadEndBy(t) ==
    /\ loader[t].pc = "loading"
    /\ loader[t].todo = {}
    /\ loader' = [loader EXCEPT ![t] = IdleReload]
    /\ UNCHANGED <<sessVars, gitVars, fwdVars, credVars, config, reader, listed>>

\* an inject_auth call on service s creates a sub-session and caches it
CacheSession(s) ==
    /\ s \in DOMAIN atproto_session
    /\ issued < MaxTokens
    /\ issued' = issued + 1
    /\ atproto_session' = [atproto_session EXCEPT
                              ![s] = ATProtoSession(issued + 1, now + SessionValidity)]
    /\ UNCHANGED <<sessVars, gitVars, fwdVars, session_lock, th, storeVars>>

InitReload ==
    /\ sessions = EmptyMap
    /\ now = 0
    /\ hist = EmptyMap
    /\ ret = NoCall
    /\ GitIdle
    /\ config \in Files
    /\ creds = Loaded(config.names)
    /\ fwd = NoForward
    /\ atproto_session = [s \in AtprotoNames(config.names) |-> NoATProtoSession]
    /\ session_lock = EmptyMap
    /\ th = EmptyMap
    /\ issued = 0
    /\ loader = [t \in Threads |-> IdleReload]
    /\ reader = NoRead
    /\ listed = NoListing

NextReload ==
    \/ \E file \in Files : WriteConfig(file)
    \/ \E t \in Threads : ReloadClearBy(t)
    \/ \E t \in Threads : ReloadReadBy(t)
    \/ \E t \in Threads, name \in ConfigNames : ReloadInsertBy(t, name)
    \/ \E t \in Threads : ReloadEndBy(t)
    \/ \E s \in ConfigNames : CacheSession(s)

SpecReload == InitReload /\ [][NextReload]_vars

\* what holds of the mapping when the reload of thread t has just returned
ReloadedExactly(t) ==
    /\ DOMAIN creds' = loader[t].new
    /\ \A s \in LookupNames \ loader[t].new :
          (forward_request(s, EmptyMap, "", None, "response", "boom").status)' = "404"
    /\ \A s \in DOMAIN atproto_session' :
          \/ atproto_session'[s] = NoATProtoSession
          \/ atproto_session'[s].access_jwt > loader[t].mark

\* the reload of thread t returns and leaves no reload running
LastReturns(t) ==
    /\ loader[t].pc = "loading" /\ loader'[t].pc = "idle"
    /\ \A u \in Threads : loader'[u].pc = "idle"

(* C39: when a reload() returns and no other reload is running, the mapping
   holds exactly the entries that reload read from the file (none if the file
   was missing or not valid JSON), a service that is not among them is
   answered 404 by forward_request, and no credential of the mapping holds a
   sub-session cached before the reload began. *)
C39_ReloadReplacesAll ==
    [][\A t \in Threads : LastReturns(t) => ReloadedExactly(t)]_vars

\* the same for a reload during which no other reload ran
C39_AloneReplacesAll ==
    [][\A t \in Threads :
          (LastReturns(t) /\ ~loader[t].overlapped) => ReloadedExactly(t)]_vars

====
